---- MODULE Spec2Model ----
(***************************************************************************)
(* silent-crdt: a state-based CRDT replication engine.                     *)
(*                                                                         *)
(* Each node holds a SyncState (node_id, crdt_map, op_log) behind one      *)
(* RwLock; the HTTP/gRPC handlers take the write lock for the whole of     *)
(* apply/merge plus the storage write, so every handler is one atomic      *)
(* action here; the section on the write lock follows a request step by    *)
(* step instead, and is where that atomicity is checked.                   *)
(*                                                                         *)
(* Strings (node ids, keys, values) are sequences of byte values so that   *)
(* lexicographic comparison and the byte stream fed to SHA-256 are         *)
(* computed the way the code computes them.  Ids minted by                 *)
(* scru128::new_string() are unique and time-ordered: they are drawn from  *)
(* one global counter `gen`.  HashMap<K,V> is a function whose DOMAIN is   *)
(* the set of keys present; Option<T> is <<>> (None) or <<v>> (Some(v)).   *)
(***************************************************************************)
EXTENDS Integers, Sequences, FiniteSets, TLC

VARIABLES
    state,   \* state[n]  : the in-memory SyncState of node n (AppState.sync_state)
    stored,  \* stored[n] : the JSON value under key "state:<node_id>" (sled), or None
    wall,    \* wall[n]   : node n's wall clock in ms (chrono::Local::now)
    gen,     \* next value of the scru128 id generator
    db,      \* the snapshot keys of a Storage: key bytes -> saved JSON value
    lock,    \* lock[n]  : the holder of the write half of n's RwLock, or None
    inflight,\* inflight[n][surface] : the request a surface of n is handling
    observed,\* observed[n] : the SyncState the last reader of n was handed
    probe    \* the last call recorded: the two vector clocks compared and the
             \* answers, or the surface and credentials of the last write request

vars == <<state, stored, wall, gen, db, lock, inflight, observed, probe>>

\* what the request handlers that run as one step leave alone
rest == <<db, lock, inflight, observed, probe>>

----------------------------------------------------------------------------
(* Bounds of the exploration.                                              *)

MaxOps == 3        \* log entries created system-wide under one kind of workload
MaxOpsShort == 2   \* the same under the mixed workload and in the fair runs
MaxChanges == 2    \* changes in one ChangeRequest
MaxIds == 3        \* ids minted system-wide where restarts lose log entries
MaxKeep == 2       \* snapshots a cleanup is asked to keep

N1 == <<1>>
N2 == <<2>>
Nodes == {N1, N2}

Keys == {<<1>>}
Values == {<<1>>, <<2>>}
SetValues == {<<1>>}
Deltas == {2}
Timestamps == {1, 2}    \* the milliseconds the wall clocks run over

None == <<>>
Some(v) == <<v>>

\* the two transports of a node, which share one AppState
Surfaces == {"http", "grpc"}

EmptyMap == [x \in {} |-> 0]

----------------------------------------------------------------------------
(* Strings and bytes.                                                      *)

\* str::cmp / String `>`: lexicographic order on the bytes
RECURSIVE StrLess(_, _)
StrLess(a, b) ==
    IF b = <<>> THEN FALSE
    ELSE IF a = <<>> THEN TRUE
    ELSE IF a[1] # b[1] THEN a[1] < b[1]
    ELSE StrLess(Tail(a), Tail(b))

\* u64::to_le_bytes / i64::to_le_bytes of a non-negative number: 8 bytes
RECURSIVE LeBytesN(_, _)
LeBytesN(x, width) ==
    IF width = 0 THEN <<>> ELSE <<x % 256>> \o LeBytesN(x \div 256, width - 1)

LeBytes(x) == LeBytesN(x, 8)

\* the elements of a finite set of strings in ascending order (sort / sort_by)
RECURSIVE SortedStrings(_)
SortedStrings(S) ==
    IF S = {} THEN <<>>
    ELSE LET m == CHOOSE x \in S : \A y \in S \ {x} : StrLess(x, y)
         IN  <<m>> \o SortedStrings(S \ {m})

\* concatenation of a sequence of byte strings (successive hasher.update calls)
RECURSIVE Concat(_)
Concat(ss) == IF ss = <<>> THEN <<>> ELSE Head(ss) \o Concat(Tail(ss))

\* hex::encode(Sha256(bytes)): a fixed-width injective image of the byte
\* stream, written as the stream between two marks that are no byte values
Sha256Hex(bytes) == <<-1>> \o bytes \o <<-2>>

----------------------------------------------------------------------------
(* VectorClock                                                             *)

VCNew == EmptyMap

\* an increment whose first value for a node is two
VCIncrementFromOne(vc, n) ==
    IF n \in DOMAIN vc THEN [vc EXCEPT ![n] = @ + 1] ELSE vc @@ (n :> 2)

\* VectorClock::increment
VCIncrement(vc, n) ==
    IF n \in DOMAIN vc THEN [vc EXCEPT ![n] = @ + 1] ELSE vc @@ (n :> 1)

VCGet(vc, n) == IF n \in DOMAIN vc THEN vc[n] ELSE 0

Max(a, b) == IF a >= b THEN a ELSE b

\* a merge that leaves the receiver's clock as it was
VCMergeKeepsOwn(vc, other) == vc

VCMerge(vc, other) ==
    [n \in DOMAIN vc \cup DOMAIN other |->
        IF n \in DOMAIN other THEN Max(VCGet(vc, n), other[n]) ELSE vc[n]]

----------------------------------------------------------------------------
(* GCounter                                                                *)

GCounterNew == [counts |-> EmptyMap]

GCounterIncrement(c, n, delta) ==
    [counts |-> IF n \in DOMAIN c.counts
                THEN [c.counts EXCEPT ![n] = @ + delta]
                ELSE c.counts @@ (n :> delta)]

RECURSIVE SumOver(_, _)
SumOver(f, S) ==
    IF S = {} THEN 0
    ELSE LET x == CHOOSE y \in S : TRUE IN f[x] + SumOver(f, S \ {x})

GCounterValue(c) == SumOver(c.counts, DOMAIN c.counts)

\* a merge that adds the peer's contribution instead of taking the maximum
GCounterMergeSum(c, other) ==
    [counts |-> [n \in DOMAIN c.counts \cup DOMAIN other.counts |->
        (IF n \in DOMAIN c.counts THEN c.counts[n] ELSE 0)
        + (IF n \in DOMAIN other.counts THEN other.counts[n] ELSE 0)]]

\* a merge that takes the peer's contribution instead of the maximum
GCounterMergeOverwrite(c, other) ==
    [counts |-> [n \in DOMAIN c.counts \cup DOMAIN other.counts |->
        IF n \in DOMAIN other.counts THEN other.counts[n] ELSE c.counts[n]]]

GCounterMerge(c, other) ==
    [counts |-> [n \in DOMAIN c.counts \cup DOMAIN other.counts |->
        IF n \in DOMAIN other.counts
        THEN Max(IF n \in DOMAIN c.counts THEN c.counts[n] ELSE 0, other.counts[n])
        ELSE c.counts[n]]]

GCounterStateHash(c) ==
    LET sorted == SortedStrings(DOMAIN c.counts)
    IN  Sha256Hex(Concat([i \in 1..Len(sorted) |->
            sorted[i] \o LeBytes(c.counts[sorted[i]])]))

----------------------------------------------------------------------------
(* PNCounter                                                               *)

PNCounterNew == [positive |-> GCounterNew, negative |-> GCounterNew]

PNCounterIncrement(c, n, delta) ==
    [c EXCEPT !.positive = GCounterIncrement(@, n, delta)]

PNCounterDecrement(c, n, delta) ==
    [c EXCEPT !.negative = GCounterIncrement(@, n, delta)]

PNCounterValue(c) == GCounterValue(c.positive) - GCounterValue(c.negative)

\* a merge that pairs each half with the peer's other half
PNCounterMergeCrossed(c, other) ==
    [positive |-> GCounterMerge(c.positive, other.negative),
     negative |-> GCounterMerge(c.negative, other.positive)]

PNCounterMerge(c, other) ==
    [positive |-> GCounterMerge(c.positive, other.positive),
     negative |-> GCounterMerge(c.negative, other.negative)]

\* the bytes of b"positive:" and b"negative:" are kept as two distinct marks
PositiveLit == <<-3>>
NegativeLit == <<-4>>

PNCounterStateHash(c) ==
    Sha256Hex(PositiveLit \o GCounterStateHash(c.positive)
              \o NegativeLit \o GCounterStateHash(c.negative))

----------------------------------------------------------------------------
(* LWWRegister<String>                                                     *)

LWWRegisterNew == [value |-> None, timestamp |-> 0, node_id |-> <<>>]

LWWRegisterSet(r, value, timestamp, n) ==
    [value |-> Some(value), timestamp |-> timestamp, node_id |-> n]

LWWRegisterMerge(r, other) ==
    IF \/ other.timestamp > r.timestamp
       \/ (other.timestamp = r.timestamp /\ StrLess(r.node_id, other.node_id))
    THEN [value |-> other.value, timestamp |-> other.timestamp,
          node_id |-> other.node_id]
    ELSE r

----------------------------------------------------------------------------
(* ORSet<String>                                                           *)

ORSetNew == [added |-> EmptyMap, removed |-> {}]

ORSetAdd(s, value, unique_id) ==
    [s EXCEPT !.added =
        IF value \in DOMAIN s.added
        THEN [s.added EXCEPT ![value] = @ \cup {unique_id}]
        ELSE s.added @@ (value :> {unique_id})]

ORSetRemove(s, value) ==
    IF value \in DOMAIN s.added
    THEN [s EXCEPT !.removed = @ \cup s.added[value]]
    ELSE s

ORSetContains(s, value) ==
    /\ value \in DOMAIN s.added
    /\ \E id \in s.added[value] : id \notin s.removed

ORSetElements(s) ==
    {value \in DOMAIN s.added : \E id \in s.added[value] : id \notin s.removed}

\* a merge that takes the peer's add-uids only for values it does not hold
ORSetMergeKeepsOwn(s, other) ==
    [added |-> [v \in DOMAIN s.added \cup DOMAIN other.added |->
                   IF v \in DOMAIN s.added THEN s.added[v] ELSE other.added[v]],
     removed |-> s.removed \cup other.removed]

ORSetMerge(s, other) ==
    [added |-> [v \in DOMAIN s.added \cup DOMAIN other.added |->
                   (IF v \in DOMAIN s.added THEN s.added[v] ELSE {})
                   \cup (IF v \in DOMAIN other.added THEN other.added[v] ELSE {})],
     removed |-> s.removed \cup other.removed]

----------------------------------------------------------------------------
(* CRDTValue and CRDTMap                                                   *)

GCounterV(c) == [tag |-> "GCounter", v |-> c]
PNCounterV(c) == [tag |-> "PNCounter", v |-> c]
LWWRegisterV(r) == [tag |-> "LWWRegister", v |-> r]
ORSetV(s) == [tag |-> "ORSet", v |-> s]

CRDTMapNew == [entries |-> EmptyMap, vector_clock |-> VCNew]

\* a merge where the peer's value wins when the variants differ
MergeEntryAdoptsPeer(entries, key, other_value) ==
    IF key \notin DOMAIN entries THEN other_value
    ELSE LET mine == entries[key] IN
         IF mine.tag # other_value.tag THEN other_value
         ELSE CASE mine.tag = "GCounter" ->
                     GCounterV(GCounterMerge(mine.v, other_value.v))
                [] mine.tag = "PNCounter" ->
                     PNCounterV(PNCounterMerge(mine.v, other_value.v))
                [] mine.tag = "LWWRegister" ->
                     LWWRegisterV(LWWRegisterMerge(mine.v, other_value.v))
                [] mine.tag = "ORSet" ->
                     ORSetV(ORSetMerge(mine.v, other_value.v))

\* one arm of the match in CRDTMap::merge, for a key present in `other`
MergeEntry(entries, key, other_value) ==
    IF key \notin DOMAIN entries THEN other_value
    ELSE LET mine == entries[key] IN
         IF mine.tag # other_value.tag THEN mine
         ELSE CASE mine.tag = "GCounter" ->
                     GCounterV(GCounterMerge(mine.v, other_value.v))
                [] mine.tag = "PNCounter" ->
                     PNCounterV(PNCounterMerge(mine.v, other_value.v))
                [] mine.tag = "LWWRegister" ->
                     LWWRegisterV(LWWRegisterMerge(mine.v, other_value.v))
                [] mine.tag = "ORSet" ->
                     ORSetV(ORSetMerge(mine.v, other_value.v))

\* a map merge that takes over the sender's clock instead of joining the two
CRDTMapMergeAdoptsClock(m, other) ==
    [entries |-> [key \in DOMAIN m.entries \cup DOMAIN other.entries |->
                    IF key \in DOMAIN other.entries
                    THEN MergeEntry(m.entries, key, other.entries[key])
                    ELSE m.entries[key]],
     vector_clock |-> other.vector_clock]

\* CRDTMap::merge
CRDTMapMerge(m, other) ==
    [entries |-> [key \in DOMAIN m.entries \cup DOMAIN other.entries |->
                    IF key \in DOMAIN other.entries
                    THEN MergeEntry(m.entries, key, other.entries[key])
                    ELSE m.entries[key]],
     vector_clock |-> VCMerge(m.vector_clock, other.vector_clock)]

\* the bytes CRDTMap::state_hash feeds to the hasher for one value
ValueBytes(value) ==
    CASE value.tag = "GCounter" -> GCounterStateHash(value.v)
      [] value.tag = "PNCounter" -> PNCounterStateHash(value.v)
      [] value.tag = "LWWRegister" ->
            (IF value.v.value = None THEN <<>> ELSE value.v.value[1])
            \o LeBytes(value.v.timestamp)
      [] value.tag = "ORSet" -> Concat(SortedStrings(ORSetElements(value.v)))

CRDTMapStateHash(m) ==
    LET sorted == SortedStrings(DOMAIN m.entries)
    IN  Sha256Hex(Concat([i \in 1..Len(sorted) |->
            sorted[i] \o ValueBytes(m.entries[sorted[i]])]))

----------------------------------------------------------------------------
(* Operation, OpLogEntry, OpLog                                            *)

OpGCounterIncrement(key, n, delta) ==
    [type |-> "g-counter-increment", key |-> key, node_id |-> n, delta |-> delta]
OpPNCounterIncrement(key, n, delta) ==
    [type |-> "p-n-counter-increment", key |-> key, node_id |-> n, delta |-> delta]
OpPNCounterDecrement(key, n, delta) ==
    [type |-> "p-n-counter-decrement", key |-> key, node_id |-> n, delta |-> delta]
OpLwwRegisterSet(key, value, timestamp, n) ==
    [type |-> "lww-register-set", key |-> key, value |-> value,
     timestamp |-> timestamp, node_id |-> n]
OpOrSetAdd(key, value, unique_id) ==
    [type |-> "or-set-add", key |-> key, value |-> value, unique_id |-> unique_id]
OpOrSetRemove(key, value) ==
    [type |-> "or-set-remove", key |-> key, value |-> value]

OpLogNew(n) == [node_id |-> n, ops |-> <<>>]

\* an add_operation that stamps the entry without advancing the clock
OpLogAddOperationNoTick(log, op, vector_clock, id, ts) ==
    [log |-> [log EXCEPT !.ops =
                 Append(@, [id |-> id, ts |-> ts, causal |-> vector_clock, op |-> op])],
     vector_clock |-> vector_clock]

\* OpLog::add_operation with the id and the timestamp it reads; yields the
\* log and the incremented clock
OpLogAddOperation(log, op, vector_clock, id, ts) ==
    LET vc == VCIncrement(vector_clock, log.node_id)
    IN  [log |-> [log EXCEPT !.ops =
                     Append(@, [id |-> id, ts |-> ts, causal |-> vc, op |-> op])],
         vector_clock |-> vc]

\* a.ts.cmp(&b.ts).then_with(|| a.id.cmp(&b.id)) == Less
EntryLess(a, b) == a.ts < b.ts \/ (a.ts = b.ts /\ a.id < b.id)

\* Vec::sort_by (stable): e goes behind every entry that is not greater
RECURSIVE InsertEntry(_, _)
InsertEntry(sorted, e) ==
    IF sorted = <<>> THEN <<e>>
    ELSE IF EntryLess(e, Head(sorted)) THEN <<e>> \o sorted
    ELSE <<Head(sorted)>> \o InsertEntry(Tail(sorted), e)

RECURSIVE SortOps(_)
SortOps(ops) ==
    IF ops = <<>> THEN <<>>
    ELSE InsertEntry(SortOps(SubSeq(ops, 1, Len(ops) - 1)), ops[Len(ops)])

\* the loop of OpLog::merge: push the entries whose id is not yet present
RECURSIVE PushMissing(_, _)
PushMissing(ops, others) ==
    IF others = <<>> THEN ops
    ELSE PushMissing(
            IF \E i \in 1..Len(ops) : ops[i].id = Head(others).id
            THEN ops ELSE Append(ops, Head(others)),
            Tail(others))

\* a merge that pushes every entry of the peer, present or not
OpLogMergePushesAll(log, other) ==
    [log EXCEPT !.ops = SortOps(@ \o other.ops)]

OpLogMerge(log, other) ==
    [log EXCEPT !.ops = SortOps(PushMissing(@, other.ops))]

----------------------------------------------------------------------------
(* SyncState                                                               *)

SyncStateNew(n) ==
    [node_id |-> n, crdt_map |-> CRDTMapNew, op_log |-> OpLogNew(n)]

\* an entry(key) that hands out a fresh value whatever the key holds
EntryOrInsertFresh(entries, key, fresh) == fresh

\* entries.entry(key).or_insert_with(|| fresh): the value under the key
EntryOrInsert(entries, key, fresh) ==
    IF key \in DOMAIN entries THEN entries[key] ELSE fresh

\* the map once the slot handed out by entry(key) holds `value`
SetEntry(entries, key, value) ==
    IF key \in DOMAIN entries THEN [entries EXCEPT ![key] = value]
    ELSE entries @@ (key :> value)

\* the match of SyncState::apply_operation on the map entries; by the `if let`
\* on the variant a value of another variant under the key is left as it is
ApplyToEntries(entries, op) ==
    CASE op.type = "g-counter-increment" ->
            LET cur == EntryOrInsert(entries, op.key, GCounterV(GCounterNew))
            IN  SetEntry(entries, op.key,
                    IF cur.tag = "GCounter"
                    THEN GCounterV(GCounterIncrement(cur.v, op.node_id, op.delta))
                    ELSE cur)
      [] op.type = "p-n-counter-increment" ->
            LET cur == EntryOrInsert(entries, op.key, PNCounterV(PNCounterNew))
            IN  SetEntry(entries, op.key,
                    IF cur.tag = "PNCounter"
                    THEN PNCounterV(PNCounterIncrement(cur.v, op.node_id, op.delta))
                    ELSE cur)
      [] op.type = "p-n-counter-decrement" ->
            LET cur == EntryOrInsert(entries, op.key, PNCounterV(PNCounterNew))
            IN  SetEntry(entries, op.key,
                    IF cur.tag = "PNCounter"
                    THEN PNCounterV(PNCounterDecrement(cur.v, op.node_id, op.delta))
                    ELSE cur)
      [] op.type = "lww-register-set" ->
            LET cur == EntryOrInsert(entries, op.key, LWWRegisterV(LWWRegisterNew))
            IN  SetEntry(entries, op.key,
                    IF cur.tag = "LWWRegister"
                    THEN LWWRegisterV(LWWRegisterSet(cur.v, op.value, op.timestamp, op.node_id))
                    ELSE cur)
      [] op.type = "or-set-add" ->
            LET cur == EntryOrInsert(entries, op.key, ORSetV(ORSetNew))
            IN  SetEntry(entries, op.key,
                    IF cur.tag = "ORSet"
                    THEN ORSetV(ORSetAdd(cur.v, op.value, op.unique_id))
                    ELSE cur)
      [] op.type = "or-set-remove" ->
            IF op.key \in DOMAIN entries /\ entries[op.key].tag = "ORSet"
            THEN [entries EXCEPT ![op.key] = ORSetV(ORSetRemove(@.v, op.value))]
            ELSE entries

\* SyncState::apply_operation; id and ts are what add_operation mints and reads
ApplyOperation(s, op, id, ts) ==
    LET logged == OpLogAddOperation(s.op_log, op, s.crdt_map.vector_clock, id, ts)
    IN  [node_id |-> s.node_id,
         crdt_map |-> [entries |-> ApplyToEntries(s.crdt_map.entries, op),
                       vector_clock |-> logged.vector_clock],
         op_log |-> logged.log]

\* SyncState::merge: the op log, then the map
Merge(s, other) ==
    [node_id |-> s.node_id,
     crdt_map |-> CRDTMapMerge(s.crdt_map, other.crdt_map),
     op_log |-> OpLogMerge(s.op_log, other.op_log)]

StateHash(s) == CRDTMapStateHash(s.crdt_map)

----------------------------------------------------------------------------
(* JSON (serde_json).  A JSON text is modelled by its value tree; the       *)
(* derived Serialize / Deserialize impls decide which tree a value becomes *)
(* and which value a tree is read back as.                                 *)

JNull == [json |-> "null"]
JNumber(x) == [json |-> "number", n |-> x]
JString(x) == [json |-> "string", s |-> x]
JArray(items) == [json |-> "array", items |-> items]
JObject(fields) == [json |-> "object", fields |-> fields]

\* what a Deserialize impl answers for a tree it does not accept
Invalid == [invalid |-> TRUE]

\* a HashSet is written as an array, in the order its iterator yields
RECURSIVE SetToArray(_)
SetToArray(S) ==
    IF S = {} THEN <<>>
    ELSE LET x == CHOOSE y \in S : TRUE IN <<JString(x)>> \o SetToArray(S \ {x})

\* and read back by inserting the items one by one
ArrayToSet(j) ==
    IF j.json = "array" THEN {j.items[i].s : i \in 1..Len(j.items)} ELSE {}

\* HashMap<String, u64>
CountsToJson(f) == JObject([n \in DOMAIN f |-> JNumber(f[n])])
CountsFromJson(j) == [n \in DOMAIN j.fields |-> j.fields[n].n]

VectorClockToJson(vc) == JObject([clocks |-> CountsToJson(vc)])
VectorClockFromJson(j) == CountsFromJson(j.fields.clocks)

GCounterToJson(c) == JObject([counts |-> CountsToJson(c.counts)])
GCounterFromJson(j) == [counts |-> CountsFromJson(j.fields.counts)]

PNCounterToJson(c) ==
    JObject([positive |-> GCounterToJson(c.positive),
             negative |-> GCounterToJson(c.negative)])
PNCounterFromJson(j) ==
    [positive |-> GCounterFromJson(j.fields.positive),
     negative |-> GCounterFromJson(j.fields.negative)]

\* Option<String>: None is null
LWWRegisterToJson(r) ==
    JObject([value |-> IF r.value = None THEN JNull ELSE JString(r.value[1]),
             timestamp |-> JNumber(r.timestamp),
             node_id |-> JString(r.node_id)])
LWWRegisterFromJson(j) ==
    [value |-> IF j.fields.value.json = "null" THEN None
               ELSE Some(j.fields.value.s),
     timestamp |-> j.fields.timestamp.n,
     node_id |-> j.fields.node_id.s]

\* a writer that leaves the tombstoned uids out of `added`
ORSetToJsonLiveOnly(x) ==
    JObject([added |-> JObject([v \in DOMAIN x.added |->
                                   JArray(SetToArray(x.added[v] \ x.removed))]),
             removed |-> JArray(SetToArray(x.removed))])

\* the hand-written impls of ORSet: a struct of the two fields
ORSetToJson(x) ==
    JObject([added |-> JObject([v \in DOMAIN x.added |-> JArray(SetToArray(x.added[v]))]),
             removed |-> JArray(SetToArray(x.removed))])
ORSetFromJson(j) ==
    [added |-> [v \in DOMAIN j.fields.added.fields |->
                   ArrayToSet(j.fields.added.fields[v])],
     removed |-> ArrayToSet(j.fields.removed)]

\* CRDTValue is externally tagged: {"<Variant>": <content>}
CRDTValueToJson(value) ==
    JObject(value.tag :>
        CASE value.tag = "GCounter" -> GCounterToJson(value.v)
          [] value.tag = "PNCounter" -> PNCounterToJson(value.v)
          [] value.tag = "LWWRegister" -> LWWRegisterToJson(value.v)
          [] value.tag = "ORSet" -> ORSetToJson(value.v))
CRDTValueFromJson(j) ==
    IF j.json # "object" \/ Cardinality(DOMAIN j.fields) # 1 THEN Invalid
    ELSE LET variant == CHOOSE t \in DOMAIN j.fields : TRUE
             content == j.fields[variant]
         IN  CASE variant = "GCounter" -> GCounterV(GCounterFromJson(content))
               [] variant = "PNCounter" -> PNCounterV(PNCounterFromJson(content))
               [] variant = "LWWRegister" -> LWWRegisterV(LWWRegisterFromJson(content))
               [] variant = "ORSet" -> ORSetV(ORSetFromJson(content))
               [] OTHER -> Invalid

CRDTMapToJson(m) ==
    JObject([entries |-> JObject([k \in DOMAIN m.entries |-> CRDTValueToJson(m.entries[k])]),
             vector_clock |-> VectorClockToJson(m.vector_clock)])
CRDTMapFromJson(j) ==
    [entries |-> [k \in DOMAIN j.fields.entries.fields |->
                     CRDTValueFromJson(j.fields.entries.fields[k])],
     vector_clock |-> VectorClockFromJson(j.fields.vector_clock)]

\* Operation is internally tagged (tag = "type", kebab-case variant names):
\* the variant's fields beside the tag
OperationToJson(op) ==
    JObject(CASE op.type \in {"g-counter-increment", "p-n-counter-increment",
                              "p-n-counter-decrement"} ->
                    [type |-> JString(op.type), key |-> JString(op.key),
                     node_id |-> JString(op.node_id), delta |-> JNumber(op.delta)]
              [] op.type = "lww-register-set" ->
                    [type |-> JString(op.type), key |-> JString(op.key),
                     value |-> JString(op.value), timestamp |-> JNumber(op.timestamp),
                     node_id |-> JString(op.node_id)]
              [] op.type = "or-set-add" ->
                    [type |-> JString(op.type), key |-> JString(op.key),
                     value |-> JString(op.value), unique_id |-> JString(op.unique_id)]
              [] op.type = "or-set-remove" ->
                    [type |-> JString(op.type), key |-> JString(op.key),
                     value |-> JString(op.value)])
OperationFromJson(j) ==
    LET f == j.fields
        type == f.type.s
    IN  CASE type = "g-counter-increment" ->
                OpGCounterIncrement(f.key.s, f.node_id.s, f.delta.n)
          [] type = "p-n-counter-increment" ->
                OpPNCounterIncrement(f.key.s, f.node_id.s, f.delta.n)
          [] type = "p-n-counter-decrement" ->
                OpPNCounterDecrement(f.key.s, f.node_id.s, f.delta.n)
          [] type = "lww-register-set" ->
                OpLwwRegisterSet(f.key.s, f.value.s, f.timestamp.n, f.node_id.s)
          [] type = "or-set-add" -> OpOrSetAdd(f.key.s, f.value.s, f.unique_id.s)
          [] type = "or-set-remove" -> OpOrSetRemove(f.key.s, f.value.s)
          [] OTHER -> Invalid

OpLogEntryToJson(e) ==
    JObject([id |-> JString(e.id), ts |-> JNumber(e.ts),
             causal |-> VectorClockToJson(e.causal), op |-> OperationToJson(e.op)])
OpLogEntryFromJson(j) ==
    [id |-> j.fields.id.s, ts |-> j.fields.ts.n,
     causal |-> VectorClockFromJson(j.fields.causal),
     op |-> OperationFromJson(j.fields.op)]

OpLogToJson(log) ==
    JObject([node_id |-> JString(log.node_id),
             ops |-> JArray([i \in 1..Len(log.ops) |-> OpLogEntryToJson(log.ops[i])])])
OpLogFromJson(j) ==
    [node_id |-> j.fields.node_id.s,
     ops |-> [i \in 1..Len(j.fields.ops.items) |->
                 OpLogEntryFromJson(j.fields.ops.items[i])]]

\* serde_json::to_vec(state) and serde_json::from_slice(&value)
SyncStateToJson(s) ==
    JObject([node_id |-> JString(s.node_id),
             crdt_map |-> CRDTMapToJson(s.crdt_map),
             op_log |-> OpLogToJson(s.op_log)])
SyncStateFromJson(j) ==
    [node_id |-> j.fields.node_id.s,
     crdt_map |-> CRDTMapFromJson(j.fields.crdt_map),
     op_log |-> OpLogFromJson(j.fields.op_log)]

\* Storage::save_state: the value put under the node's key
SaveState(s) == Some(SyncStateToJson(s))

\* Storage::load_state: Ok(None) when the key is absent
LoadState(value) ==
    IF value = None THEN None ELSE Some(SyncStateFromJson(value[1]))

----------------------------------------------------------------------------
(* Snapshots.  Keys are byte strings: ':' is 58, the digits are 48..57.    *)

Colon == 58
Plus == 43
Digit0 == 48
SnapshotLit == <<115, 110, 97, 112, 115, 104, 111, 116>>    \* "snapshot"

\* format!("{}", version)
RECURSIVE Decimal(_)
Decimal(x) ==
    IF x < 10 THEN <<Digit0 + x>> ELSE Decimal(x \div 10) \o <<Digit0 + (x % 10)>>

\* format!("snapshot:{}:{}", node_id, version)
SnapshotKey(node_id, version) ==
    SnapshotLit \o <<Colon>> \o node_id \o <<Colon>> \o Decimal(version)

\* format!("snapshot:{}:", node_id)
SnapshotPrefix(node_id) == SnapshotLit \o <<Colon>> \o node_id \o <<Colon>>

HasPrefix(key, prefix) ==
    Len(prefix) <= Len(key) /\ SubSeq(key, 1, Len(prefix)) = prefix

\* str::split(':'): the fields between the separators
RECURSIVE Split(_, _)
Split(str, sep) ==
    IF \A i \in 1..Len(str) : str[i] # sep THEN <<str>>
    ELSE LET i == CHOOSE j \in 1..Len(str) :
                      str[j] = sep /\ \A h \in 1..(j - 1) : str[h] # sep
         IN  <<SubSeq(str, 1, i - 1)>> \o Split(SubSeq(str, i + 1, Len(str)), sep)

\* Iterator::nth (0-based)
Nth(fields, i) == IF i + 1 <= Len(fields) THEN Some(fields[i + 1]) ELSE None

RECURSIVE DigitsValue(_)
DigitsValue(str) ==
    IF str = <<>> THEN 0
    ELSE 10 * DigitsValue(SubSeq(str, 1, Len(str) - 1)) + (str[Len(str)] - Digit0)

\* str::parse::<u64>: decimal digits behind an optional '+'
ParseU64(str) ==
    LET digits == IF str # <<>> /\ str[1] = Plus THEN Tail(str) ELSE str
    IN  IF digits # <<>> /\ \A i \in 1..Len(digits) : digits[i] \in Digit0..(Digit0 + 9)
        THEN Some(DigitsValue(digits)) ELSE None

\* the loop of list_snapshots over the keys scan_prefix yields in key order
RECURSIVE ScanVersions(_)
ScanVersions(keys) ==
    IF keys = <<>> THEN <<>>
    ELSE LET field == Nth(Split(Head(keys), Colon), 2)
             version == IF field = None THEN None ELSE ParseU64(field[1])
         IN  (IF version = None THEN <<>> ELSE <<version[1]>>) \o ScanVersions(Tail(keys))

\* Vec<u64>::sort
RECURSIVE SortVersions(_)
SortVersions(versions) ==
    IF versions = <<>> THEN <<>>
    ELSE LET i == CHOOSE j \in 1..Len(versions) :
                      \A h \in 1..Len(versions) : versions[j] <= versions[h]
         IN  <<versions[i]>>
             \o SortVersions(SubSeq(versions, 1, i - 1) \o SubSeq(versions, i + 1, Len(versions)))

\* Storage::list_snapshots
ListSnapshots(d, node_id) ==
    SortVersions(ScanVersions(SortedStrings(
        {key \in DOMAIN d : HasPrefix(key, SnapshotPrefix(node_id))})))

\* Storage::save_snapshot
SaveSnapshot(d, node_id, version, s) ==
    [key \in DOMAIN d \cup {SnapshotKey(node_id, version)} |->
        IF key = SnapshotKey(node_id, version) THEN SyncStateToJson(s) ELSE d[key]]

\* Storage::load_snapshot
LoadSnapshot(d, node_id, version) ==
    IF SnapshotKey(node_id, version) \in DOMAIN d
    THEN Some(SyncStateFromJson(d[SnapshotKey(node_id, version)])) ELSE None

\* Storage::cleanup_old_snapshots
CleanupOldSnapshots(d, node_id, keep) ==
    LET versions == ListSnapshots(d, node_id)
    IN  IF Len(versions) <= keep THEN d
        ELSE LET to_delete == {SnapshotKey(node_id, versions[i]) :
                                   i \in 1..(Len(versions) - keep)}
             IN  [key \in DOMAIN d \ to_delete |-> d[key]]

----------------------------------------------------------------------------
(* Conflict detection (GET /conflicts and the gRPC GetConflicts).          *)

\* VectorClock::happens_before
HappensBefore(vc, other) ==
    /\ \A n \in DOMAIN vc : vc[n] <= VCGet(other, n)
    /\ \/ \E n \in DOMAIN vc : vc[n] < VCGet(other, n)
       \/ \E n \in DOMAIN other : n \notin DOMAIN vc /\ other[n] > 0

\* VectorClock::is_concurrent: the last conjunct is the derived equality of the
\* two HashMaps, which tells an explicit zero entry from a missing one
IsConcurrent(vc, other) ==
    /\ ~HappensBefore(vc, other)
    /\ ~HappensBefore(other, vc)
    /\ vc # other

IsLwwSet(entry) == entry.op.type = "lww-register-set"

RECURSIVE LwwWrites(_, _)
\* lww_writes[key]: the LwwRegisterSet entries of the key, in log order
LwwWrites(ops, key) ==
    IF ops = <<>> THEN <<>>
    ELSE IF IsLwwSet(Head(ops)) /\ Head(ops).op.key = key
         THEN <<Head(ops)>> \o LwwWrites(Tail(ops), key)
         ELSE LwwWrites(Tail(ops), key)

LwwKeys(ops) == {ops[i].op.key : i \in {j \in 1..Len(ops) : IsLwwSet(ops[j])}}

ConflictOperation(entry) ==
    [id |-> entry.id, timestamp |-> entry.op.timestamp,
     node_id |-> entry.op.node_id, details |-> entry.op.value]

RECURSIVE ScanPairs(_, _, _, _, _)
\* the two nested loops over i and j > i, for the rows i up to `rows`; acc is
\* concurrent_writes
ScanPairs(entries, i, j, rows, acc) ==
    IF i > rows THEN acc
    ELSE IF j > Len(entries) THEN ScanPairs(entries, i + 1, i + 2, rows, acc)
    ELSE IF /\ ~HappensBefore(entries[i].causal, entries[j].causal)
            /\ ~HappensBefore(entries[j].causal, entries[i].causal)
         THEN ScanPairs(entries, i, j + 1, rows,
                  (IF acc = <<>> THEN <<ConflictOperation(entries[i])>> ELSE acc)
                    \o <<ConflictOperation(entries[j])>>)
         ELSE ScanPairs(entries, i, j + 1, rows, acc)

\* a scan that pairs only the first write of the key with the later ones
ConcurrentWritesFromFirst(entries) == ScanPairs(entries, 1, 2, 1, <<>>)

\* concurrent_writes once both loops have run
ConcurrentWrites(entries) == ScanPairs(entries, 1, 2, Len(entries), <<>>)

\* a.timestamp.cmp(&b.timestamp).then_with(|| a.node_id.cmp(&b.node_id)) is
\* Less or Equal
WriteLeq(a, b) ==
    \/ a.timestamp < b.timestamp
    \/ a.timestamp = b.timestamp /\ ~StrLess(b.node_id, a.node_id)

\* the node_id of the max_by element
WinnerNode(writes) ==
    LET i == CHOOSE i \in 1..Len(writes) : \A j \in 1..Len(writes) : WriteLeq(writes[j], writes[i])
    IN  writes[i].node_id

RECURSIVE ConflictsOver(_, _)
\* the loop over lww_writes.  A HashMap yields its keys in an unspecified
\* order; the smallest remaining key is taken first.
ConflictsOver(keys, ops) ==
    IF keys = {} THEN <<>>
    ELSE LET key == CHOOSE k \in keys : \A o \in keys : ~StrLess(o, k)
             entries == LwwWrites(ops, key)
             writes == IF Len(entries) > 1 THEN ConcurrentWrites(entries) ELSE <<>>
         IN  (IF writes # <<>>
              THEN <<[key |-> key, operations |-> writes, winner |-> WinnerNode(writes)]>>
              ELSE <<>>)
             \o ConflictsOver(keys \ {key}, ops)

\* the conflicts a get_conflicts request answers with on state s
GetConflicts(s) == ConflictsOver(LwwKeys(s.op_log.ops), s.op_log.ops)

----------------------------------------------------------------------------
(* ChangeRequest                                                           *)

Change(op, key, value, delta) ==
    [op |-> op, key |-> key, value |-> value, delta |-> delta]

\* Option::unwrap_or(1)
DeltaOr1(delta) == IF delta = None THEN 1 ELSE delta[1]

\* SyncState::apply_changes.  `now` is the wall clock the handler reads, g the
\* id generator.  The result carries the state reached, whether Ok(()) or
\* Err(_) was returned, and the generator.
RECURSIVE ApplyChanges(_, _, _, _)
ApplyChanges(s, changes, now, g) ==
    IF changes = <<>> THEN [state |-> s, ok |-> TRUE, gen |-> g]
    ELSE
      LET c == Head(changes)
          err == [state |-> s, ok |-> FALSE, gen |-> g]
      IN  CASE c.op = "add" ->
                 IF c.value = None THEN err
                 ELSE ApplyChanges(
                        ApplyOperation(s, OpOrSetAdd(c.key, c.value[1], g), g + 1, now),
                        Tail(changes), now, g + 2)
            [] c.op = "remove" ->
                 IF c.value = None THEN err
                 ELSE ApplyChanges(
                        ApplyOperation(s, OpOrSetRemove(c.key, c.value[1]), g, now),
                        Tail(changes), now, g + 1)
            [] c.op = "increment" ->
                 ApplyChanges(
                    ApplyOperation(s,
                        OpPNCounterIncrement(c.key, s.node_id, DeltaOr1(c.delta)), g, now),
                    Tail(changes), now, g + 1)
            [] c.op = "decrement" ->
                 ApplyChanges(
                    ApplyOperation(s,
                        OpPNCounterDecrement(c.key, s.node_id, DeltaOr1(c.delta)), g, now),
                    Tail(changes), now, g + 1)
            [] c.op = "set" ->
                 IF c.value = None THEN err
                 ELSE ApplyChanges(
                        ApplyOperation(s,
                            OpLwwRegisterSet(c.key, c.value[1], now, s.node_id), g, now),
                        Tail(changes), now, g + 1)
            [] OTHER -> err

----------------------------------------------------------------------------
(* Inputs of the handlers.                                                 *)

\* the changes a client may send on counters, registers and sets, and the
\* malformed ones: an op string the server does not know, a missing value
CounterChanges ==
    {Change("increment", k, None, None) : k \in Keys}
    \cup {Change("decrement", k, None, Some(d)) : k \in Keys, d \in Deltas}
RegisterChanges == {Change("set", k, Some(v), None) : k \in Keys, v \in Values}
SetChanges ==
    {Change(o, k, Some(v), None) : o \in {"add", "remove"}, k \in Keys, v \in SetValues}
BadChanges ==
    {Change("rename", k, None, None) : k \in Keys}
    \cup {Change("add", k, None, None) : k \in Keys}
Changes == CounterChanges \cup RegisterChanges \cup SetChanges \cup BadChanges

RequestsOver(C) == UNION {[1..len -> C] : len \in 0..MaxChanges}
Requests == RequestsOver(Changes)

\* every op-log entry held by some replica
AllEntries == UNION {{state[n].op_log.ops[i] : i \in 1..Len(state[n].op_log.ops)} : n \in Nodes}

EntryIds(s) == {s.op_log.ops[i].id : i \in 1..Len(s.op_log.ops)}

----------------------------------------------------------------------------
(* Actions.                                                                *)

Init ==
    /\ state = [n \in Nodes |-> SyncStateNew(n)]
    /\ stored = [n \in Nodes |-> None]
    /\ wall = [n \in Nodes |-> 1]
    /\ gen = 1
    /\ db = EmptyMap
    /\ lock = [n \in Nodes |-> None]
    /\ inflight = [n \in Nodes |-> [sf \in Surfaces |-> None]]
    /\ observed = [n \in Nodes |-> None]
    /\ probe = None

\* a millisecond passes on node n's wall clock
Tick(n) ==
    /\ wall[n] + 1 \in Timestamps
    /\ wall' = [wall EXCEPT ![n] = @ + 1]
    /\ UNCHANGED <<state, stored, gen, rest>>

\* POST /sync (api.rs sync_handler) and the gRPC Sync (grpc_service.rs), which
\* run the same steps under the write lock: apply_changes; on Err answer
\* "bad request" without saving; otherwise save_state and answer success, or
\* "internal error" when the storage write fails (saveOk is whether the
\* storage write succeeds).
SyncHandler(n, req, saveOk) ==
    LET r == ApplyChanges(state[n], req, wall[n], gen) IN
    /\ state' = [state EXCEPT ![n] = r.state]
    /\ stored' = IF r.ok /\ saveOk THEN [stored EXCEPT ![n] = SaveState(r.state)] ELSE stored
    /\ gen' = r.gen
    /\ UNCHANGED <<wall, rest>>

\* a library caller grows a GCounter under its own node id through
\* SyncState::apply_operation (as the unit tests of sync.rs do); nothing is saved
ApplyOperationCall(n, op) ==
    /\ state' = [state EXCEPT ![n] = ApplyOperation(@, op, gen, wall[n])]
    /\ gen' = gen + 1
    /\ UNCHANGED <<stored, wall, rest>>

\* POST /merge (api.rs merge_handler) and the gRPC Merge at node m for a
\* SyncRequest carrying `peer`: merge, save_state, answer success
MergeHandler(m, peer, saveOk) ==
    /\ state' = [state EXCEPT ![m] = Merge(@, peer)]
    /\ stored' = IF saveOk THEN [stored EXCEPT ![m] = SaveState(Merge(state[m], peer))]
                 ELSE stored
    /\ UNCHANGED <<wall, gen, rest>>

\* a sync-peer that also persists the originator's state once the peer has
\* answered
SyncPeerHandlerSavesLocal(n, m, reachable, saveOk) ==
    IF reachable
    THEN /\ state' = [state EXCEPT ![m] = Merge(@, state[n])]
         /\ stored' = [[stored EXCEPT ![n] = SaveState(state[n])] EXCEPT
                          ![m] = IF saveOk THEN SaveState(Merge(state[m], state[n]))
                                 ELSE stored[m]]
         /\ UNCHANGED <<wall, gen, rest>>
    ELSE UNCHANGED vars

\* POST /sync-peer at node n naming peer m (api.rs sync_peer_handler): clone
\* the state under the read lock and post it to m's /merge.  When the peer
\* cannot be reached nothing happens on either side.
SyncPeerHandler(n, m, reachable, saveOk) ==
    IF reachable THEN MergeHandler(m, state[n], saveOk)
    ELSE UNCHANGED vars

LibraryOps(n) == {OpGCounterIncrement(k, n, d) : k \in Keys, d \in Deltas}

\* the exploration stops creating log entries at `limit` entries system-wide
Room(n, req, limit) ==
    Cardinality(AllEntries)
      + Len(ApplyChanges(state[n], req, wall[n], gen).state.op_log.ops)
      - Len(state[n].op_log.ops) <= limit

Replicate ==
    \E n \in Nodes : \E m \in Nodes \ {n}, reachable \in BOOLEAN :
        SyncPeerHandler(n, m, reachable, TRUE)

\* clients send any change, well-formed or not, to any node
Next ==
    \/ \E n \in Nodes : Tick(n)
    \/ \E n \in Nodes, req \in Requests :
          Room(n, req, MaxOpsShort) /\ SyncHandler(n, req, TRUE)
    \/ \E n \in Nodes : \E op \in LibraryOps(n) :
          Cardinality(AllEntries) < MaxOpsShort /\ ApplyOperationCall(n, op)
    \/ Replicate

Spec == Init /\ [][Next]_vars

\* counters only: increments and decrements through /sync
NextCounters ==
    \/ \E n \in Nodes : Tick(n)
    \/ \E n \in Nodes, req \in RequestsOver(CounterChanges) :
          Room(n, req, MaxOps) /\ SyncHandler(n, req, TRUE)
    \/ Replicate

SpecCounters == Init /\ [][NextCounters]_vars

\* registers only
NextRegisters ==
    \/ \E n \in Nodes : Tick(n)
    \/ \E n \in Nodes, req \in RequestsOver(RegisterChanges) :
          Room(n, req, MaxOps) /\ SyncHandler(n, req, TRUE)
    \/ Replicate

SpecRegisters == Init /\ [][NextRegisters]_vars

\* sets only
NextSets ==
    \/ \E n \in Nodes : Tick(n)
    \/ \E n \in Nodes, req \in RequestsOver(SetChanges) :
          Room(n, req, MaxOps) /\ SyncHandler(n, req, TRUE)
    \/ Replicate

SpecSets == Init /\ [][NextSets]_vars

\* registers only, where the writes stop early and every push that would
\* change the receiver is eventually made: sync_peer_handler is triggered again
\* and again for each ordered pair of nodes and the peer is reachable
NextRegistersShort ==
    \/ \E n \in Nodes : Tick(n)
    \/ \E n \in Nodes, req \in RequestsOver(RegisterChanges) :
          Room(n, req, MaxOpsShort) /\ SyncHandler(n, req, TRUE)
    \/ Replicate

FairRegisters ==
    /\ Init /\ [][NextRegistersShort]_vars
    /\ \A n \in Nodes : \A m \in Nodes \ {n} :
          WF_vars(SyncPeerHandler(n, m, TRUE, TRUE))

\* the process of node n is stopped and started again on the same data path:
\* AppState::new loads the saved state, or starts from SyncState::new
Restart(n) ==
    /\ state' = [state EXCEPT ![n] =
                    IF LoadState(stored[n]) = None THEN SyncStateNew(n)
                    ELSE LoadState(stored[n])[1]]
    /\ UNCHANGED <<stored, wall, gen, rest>>

\* a change of every kind, one of them malformed
RestartChanges ==
    SetChanges
    \cup {Change("set", k, Some(<<1>>), None) : k \in Keys}
    \cup {Change("increment", k, None, None) : k \in Keys}
    \cup {Change("rename", k, None, None) : k \in Keys}

\* requests, pushes and restarts; entries that were never saved are lost by a
\* restart, so the exploration is bounded by the ids minted
NextRestart ==
    \/ \E n \in Nodes, req \in RequestsOver(RestartChanges) :
          /\ ApplyChanges(state[n], req, wall[n], gen).gen <= MaxIds + 1
          /\ SyncHandler(n, req, TRUE)
    \/ Replicate
    \/ \E n \in Nodes : Restart(n)

SpecRestart == Init /\ [][NextRestart]_vars

\* the node ids snapshots are kept for (a NodeId is any non-empty string), the
\* versions the callers assign and the state a caller saves at a version
SnapshotNodes == {<<1>>, <<2>>, <<1, Colon, Digit0 + 2>>}
Versions == {1, 2, 10}
VersionedState(node_id, version) ==
    ApplyOperation(SyncStateNew(node_id),
                   OpGCounterIncrement(<<1>>, node_id, version), version, version)

SaveSnapshotCall(node_id, version) ==
    /\ db' = SaveSnapshot(db, node_id, version, VersionedState(node_id, version))
    /\ UNCHANGED <<state, stored, wall, gen, lock, inflight, observed, probe>>

CleanupOldSnapshotsCall(node_id, keep) ==
    /\ db' = CleanupOldSnapshots(db, node_id, keep)
    /\ UNCHANGED <<state, stored, wall, gen, lock, inflight, observed, probe>>

NextSnapshots ==
    \/ \E node_id \in SnapshotNodes, version \in Versions :
          SaveSnapshotCall(node_id, version)
    \/ \E node_id \in SnapshotNodes, keep \in 0..MaxKeep :
          CleanupOldSnapshotsCall(node_id, keep)

SpecSnapshots == Init /\ [][NextSnapshots]_vars

\* two keys, each written as a counter by some clients and as a register by
\* others
TwoKeys == {<<1>>, <<2>>}
MismatchChanges ==
    {Change("increment", k, None, None) : k \in TwoKeys}
    \cup {Change("set", k, Some(<<1>>), None) : k \in TwoKeys}

NextMismatch ==
    \/ \E n \in Nodes, req \in RequestsOver(MismatchChanges) :
          Room(n, req, MaxOps) /\ SyncHandler(n, req, TRUE)
    \/ Replicate

SpecMismatch == Init /\ [][NextMismatch]_vars

\* counter changes whose delta a client may set to zero
ZeroChanges ==
    {Change(o, k, None, Some(d)) : o \in {"increment", "decrement"}, k \in Keys, d \in {0, 1}}

NextZero ==
    \/ \E n \in Nodes, req \in RequestsOver(ZeroChanges) :
          Room(n, req, MaxOps) /\ SyncHandler(n, req, TRUE)
    \/ Replicate

SpecZero == Init /\ [][NextZero]_vars

\* A SyncRequest put together by a client that holds no node's signing key:
\* its one operation, an increment in the name of node N2, was made by no
\* node.  OpLogEntry has no signature field and /merge takes the body as it
\* parses.
ForgedEntry ==
    [id |-> 0, ts |-> 1, causal |-> (N2 :> 1),
     op |-> OpPNCounterIncrement(CHOOSE k \in Keys : TRUE, N2, 2)]

ForgedState ==
    [node_id |-> N2,
     crdt_map |-> [entries |-> ((CHOOSE k \in Keys : TRUE) :>
                                  PNCounterV(PNCounterIncrement(PNCounterNew, N2, 2))),
                   vector_clock |-> (N2 :> 1)],
     op_log |-> [node_id |-> N2, ops |-> <<ForgedEntry>>]]

\* POST /merge at node m with the forged body
MergeForged(m) == MergeHandler(m, ForgedState, TRUE)

NextForged ==
    \/ \E n \in Nodes, req \in RequestsOver({Change("increment", k, None, None) : k \in Keys}) :
          Room(n, req, MaxOps) /\ SyncHandler(n, req, TRUE)
    \/ Replicate
    \/ \E m \in Nodes : MergeForged(m)

SpecForged == Init /\ [][NextForged]_vars

\* increment requests, well-formed or not
ErrorChanges == {Change("increment", k, None, None) : k \in Keys} \cup BadChanges

\* the same requests where every storage write succeeds
NextErrors ==
    \/ \E n \in Nodes : Tick(n)
    \/ \E n \in Nodes, req \in RequestsOver(ErrorChanges) :
          Room(n, req, MaxOps) /\ SyncHandler(n, req, TRUE)
    \/ Replicate

SpecErrors == Init /\ [][NextErrors]_vars

ReplicateFailing ==
    \E n \in Nodes : \E m \in Nodes \ {n}, reachable \in BOOLEAN, saveOk \in BOOLEAN :
        SyncPeerHandler(n, m, reachable, saveOk)

\* the storage write of a Sync or Merge request may fail (sled insert or
\* flush returning Err)
NextFailures ==
    \/ \E n \in Nodes : Tick(n)
    \/ \E n \in Nodes, req \in RequestsOver(ErrorChanges), saveOk \in BOOLEAN :
          Room(n, req, MaxOpsShort) /\ SyncHandler(n, req, saveOk)
    \/ ReplicateFailing

SpecFailures == Init /\ [][NextFailures]_vars

----------------------------------------------------------------------------
(* The write lock, step by step.  Here a Sync or Merge request is followed  *)
(* through the handler: it arrives on a surface, waits for the write half   *)
(* of the RwLock, updates the op log and then the map (once per change for  *)
(* Sync, once for Merge), writes the storage and drops the guard.  Readers  *)
(* (GET /state, /oplog, /conflicts, sync-peer's clone) take the read half.  *)

\* a write guard that is handed out whoever holds the lock
WriteLockIgnored(n) == TRUE

\* sync_state.write().await returns once no guard is out
WriteLockFree(n) == lock[n] = None

\* sync_state.read().await returns once no write guard is out
ReadLockFree(n) == lock[n] = None

Handling(n, sf) == inflight[n][sf][1]

\* the changes still to be applied by the Sync requests in progress
PendingChanges ==
    LET pending(n, sf) ==
            IF inflight[n][sf] # None /\ Handling(n, sf).kind = "sync"
            THEN Len(Handling(n, sf).changes) ELSE 0
    IN  pending(N1, "http") + pending(N1, "grpc") + pending(N2, "http") + pending(N2, "grpc")

\* a ChangeRequest arrives at a surface of node n
ReceiveSync(n, sf, req) ==
    /\ inflight[n][sf] = None
    /\ Cardinality(AllEntries) + PendingChanges + Len(req) <= MaxOpsShort
    /\ inflight' = [inflight EXCEPT ![n][sf] =
                      Some([kind |-> "sync", changes |-> req, peer |-> None,
                            op |-> None, pc |-> "wait", expect |-> None])]
    /\ UNCHANGED <<state, stored, wall, gen, db, lock, observed, probe>>

\* node m's sync-peer clones its state under the read lock and the
\* SyncRequest arrives at a surface of node n
ReceiveMerge(n, sf, m) ==
    /\ inflight[n][sf] = None
    /\ ReadLockFree(m)
    /\ inflight' = [inflight EXCEPT ![n][sf] =
                      Some([kind |-> "merge", changes |-> <<>>, peer |-> Some(state[m]),
                            op |-> None, pc |-> "wait", expect |-> None])]
    /\ UNCHANGED <<state, stored, wall, gen, db, lock, observed, probe>>

\* let mut sync_state = state.sync_state.write().await; `expect` follows what
\* the request computes from the state it found
Acquire(n, sf) ==
    /\ inflight[n][sf] # None
    /\ Handling(n, sf).pc = "wait"
    /\ WriteLockFree(n)
    /\ lock' = [lock EXCEPT ![n] = Some(sf)]
    /\ inflight' = [inflight EXCEPT ![n][sf] =
                      Some([Handling(n, sf) EXCEPT !.pc = "apply", !.expect = Some(state[n])])]
    /\ UNCHANGED <<state, stored, wall, gen, db, observed, probe>>

\* apply_changes reaches a change it rejects: the `?` returns the error and
\* the guard is dropped, nothing is saved
Reject(n, sf) ==
    /\ inflight[n][sf] # None
    /\ LET h == Handling(n, sf) IN
       /\ h.kind = "sync" /\ h.pc = "apply" /\ h.changes # <<>>
       /\ ~ApplyChanges(state[n], <<Head(h.changes)>>, wall[n], gen).ok
    /\ lock' = [lock EXCEPT ![n] = None]
    /\ inflight' = [inflight EXCEPT ![n][sf] = None]
    /\ UNCHANGED <<state, stored, wall, gen, db, observed, probe>>

\* first half of apply_operation for the next change: the change is
\* translated and op_log.add_operation logs it and advances the clock
LogUpdate(n, sf) ==
    /\ inflight[n][sf] # None
    /\ LET h == Handling(n, sf)
           r == ApplyChanges(state[n], <<Head(h.changes)>>, wall[n], gen)
           op == r.state.op_log.ops[Len(r.state.op_log.ops)].op
           logged == OpLogAddOperation(state[n].op_log, op,
                                       state[n].crdt_map.vector_clock, r.gen - 1, wall[n])
       IN  /\ h.kind = "sync" /\ h.pc = "apply" /\ h.changes # <<>>
           /\ r.ok
           /\ state' = [state EXCEPT ![n].op_log = logged.log,
                                     ![n].crdt_map.vector_clock = logged.vector_clock]
           /\ gen' = r.gen
           /\ inflight' = [inflight EXCEPT ![n][sf] =
                 Some([h EXCEPT !.pc = "map", !.op = Some(op),
                                !.expect = Some(ApplyChanges(h.expect[1], <<Head(h.changes)>>,
                                                             wall[n], gen).state)])]
    /\ UNCHANGED <<stored, wall, db, lock, observed, probe>>

\* second half of apply_operation: the match on the operation updates the map
MapUpdate(n, sf) ==
    /\ inflight[n][sf] # None
    /\ LET h == Handling(n, sf) IN
       /\ h.kind = "sync" /\ h.pc = "map"
       /\ state' = [state EXCEPT ![n].crdt_map.entries = ApplyToEntries(@, h.op[1])]
       /\ inflight' = [inflight EXCEPT ![n][sf] =
             Some([h EXCEPT !.pc = "apply", !.op = None, !.changes = Tail(h.changes)])]
    /\ UNCHANGED <<stored, wall, gen, db, lock, observed, probe>>

\* first half of SyncState::merge: self.op_log.merge(&other.op_log)
MergeLogUpdate(n, sf) ==
    /\ inflight[n][sf] # None
    /\ LET h == Handling(n, sf) IN
       /\ h.kind = "merge" /\ h.pc = "apply"
       /\ state' = [state EXCEPT ![n].op_log = OpLogMerge(@, h.peer[1].op_log)]
       /\ inflight' = [inflight EXCEPT ![n][sf] =
             Some([h EXCEPT !.pc = "map", !.expect = Some(Merge(h.expect[1], h.peer[1]))])]
    /\ UNCHANGED <<stored, wall, gen, db, lock, observed, probe>>

\* second half of SyncState::merge: self.crdt_map.merge(&other.crdt_map)
MergeMapUpdate(n, sf) ==
    /\ inflight[n][sf] # None
    /\ LET h == Handling(n, sf) IN
       /\ h.kind = "merge" /\ h.pc = "map"
       /\ state' = [state EXCEPT ![n].crdt_map = CRDTMapMerge(@, h.peer[1].crdt_map)]
       /\ inflight' = [inflight EXCEPT ![n][sf] = Some([h EXCEPT !.pc = "save"])]
    /\ UNCHANGED <<stored, wall, gen, db, lock, observed, probe>>

\* storage.save_state(&node_id, &sync_state), still under the guard
Save(n, sf, saveOk) ==
    /\ inflight[n][sf] # None
    /\ LET h == Handling(n, sf) IN
       /\ \/ h.kind = "sync" /\ h.pc = "apply" /\ h.changes = <<>>
          \/ h.kind = "merge" /\ h.pc = "save"
       /\ stored' = IF saveOk THEN [stored EXCEPT ![n] = SaveState(state[n])] ELSE stored
       /\ inflight' = [inflight EXCEPT ![n][sf] =
             Some([h EXCEPT !.pc = IF saveOk THEN "saved" ELSE "failed"])]
    /\ UNCHANGED <<state, wall, gen, db, lock, observed, probe>>

\* drop(sync_state), or the guard going out of scope when `?` returns the
\* storage error; the response is written
Release(n, sf) ==
    /\ inflight[n][sf] # None
    /\ Handling(n, sf).pc \in {"saved", "failed"}
    /\ lock' = [lock EXCEPT ![n] = None]
    /\ inflight' = [inflight EXCEPT ![n][sf] = None]
    /\ UNCHANGED <<state, stored, wall, gen, db, observed, probe>>

\* a reader (get_state_handler and the like) clones what it sees under the
\* read lock
Read(n) ==
    /\ ReadLockFree(n)
    /\ observed' = [observed EXCEPT ![n] = Some(state[n])]
    /\ UNCHANGED <<state, stored, wall, gen, db, lock, inflight, probe>>

\* node N1 is followed step by step, with clients and the peer on both of
\* its surfaces; its peer N2 is written by Sync requests taken as a whole
NextLocking ==
    \/ \E sf \in Surfaces, req \in RequestsOver(ErrorChanges) \ {<<>>} :
          ReceiveSync(N1, sf, req)
    \/ \E sf \in Surfaces : ReceiveMerge(N1, sf, N2)
    \/ \E sf \in Surfaces : Acquire(N1, sf)
    \/ \E sf \in Surfaces : Reject(N1, sf)
    \/ \E sf \in Surfaces : LogUpdate(N1, sf)
    \/ \E sf \in Surfaces : MapUpdate(N1, sf)
    \/ \E sf \in Surfaces : MergeLogUpdate(N1, sf)
    \/ \E sf \in Surfaces : MergeMapUpdate(N1, sf)
    \/ \E sf \in Surfaces, saveOk \in BOOLEAN : Save(N1, sf, saveOk)
    \/ \E sf \in Surfaces : Release(N1, sf)
    \/ Read(N1)
    \/ \E req \in RequestsOver(ErrorChanges) :
          /\ Cardinality(AllEntries) + PendingChanges + Len(req) <= MaxOpsShort
          /\ SyncHandler(N2, req, TRUE)

SpecLocking == Init /\ [][NextLocking]_vars

----------------------------------------------------------------------------
(* Convergence.                                                            *)

\* the SyncStates present in the system: the replicas and the saved states
Sources ==
    {state[n] : n \in Nodes} \cup {LoadState(stored[n])[1] : n \in {x \in Nodes : stored[x] # None}}

\* C1: whenever two replicas' op logs contain the same set of entry ids, the
\* two replicas' state_hash digests are equal.
C1_SameOpsSameDigest ==
    \A n \in Nodes, m \in Nodes :
        EntryIds(state[n]) = EntryIds(state[m])
            => StateHash(state[n]) = StateHash(state[m])

AllDigestsEqual ==
    \A n \in Nodes, m \in Nodes : StateHash(state[n]) = StateHash(state[m])

\* C2: once the local writes have stopped and every ordered pair of nodes
\* keeps getting successful pushes, eventually all replicas have equal
\* state_hash digests and the digests stay equal.
C2_EventuallyConverged == <>[]AllDigestsEqual

\* C3: for any two SyncStates a and b of the system, merging a into a copy
\* of b and merging b into a copy of a give equal state_hash digests.
C3_MergeCommutes ==
    \A a \in Sources, b \in Sources :
        StateHash(Merge(b, a)) = StateHash(Merge(a, b))

\* the digests of both groupings of merging x, y, z in this order
Groupings(x, y, z) ==
    {StateHash(Merge(Merge(x, y), z)), StateHash(Merge(x, Merge(y, z)))}

\* C4: for any three SyncStates a, b and c of the system, every order and
\* grouping of merging them gives the same state_hash digest.
C4_MergeAssociates ==
    \A a \in Sources, b \in Sources, c \in Sources :
        Cardinality(Groupings(a, b, c) \cup Groupings(a, c, b)
                    \cup Groupings(b, a, c) \cup Groupings(b, c, a)
                    \cup Groupings(c, a, b) \cup Groupings(c, b, a)) = 1

----------------------------------------------------------------------------
(* Idempotence.                                                            *)

EntrySet(s) == {s.op_log.ops[i] : i \in 1..Len(s.op_log.ops)}

\* equal map entries, vector clock, set of op-log entries and digest
SameContent(x, y) ==
    /\ x.crdt_map.entries = y.crdt_map.entries
    /\ x.crdt_map.vector_clock = y.crdt_map.vector_clock
    /\ EntrySet(x) = EntrySet(y)
    /\ StateHash(x) = StateHash(y)

----------------------------------------------------------------------------
(* LWW registers.                                                          *)

HoldsRegister(s, k) ==
    /\ k \in DOMAIN s.crdt_map.entries
    /\ s.crdt_map.entries[k].tag = "LWWRegister"

\* (timestamp, writer) of a is lexicographically below that of b
StampLess(a, b) ==
    \/ a.timestamp < b.timestamp
    \/ (a.timestamp = b.timestamp /\ StrLess(a.node_id, b.node_id))

\* C6: for any two LWW registers holding writes to the same key, after each
\* is merged into the other both hold the same value, and it is the value of
\* the write with the greatest (timestamp, writer).
C6_LwwDeterministic ==
    \A n \in Nodes, m \in Nodes, k \in Keys :
        (HoldsRegister(state[n], k) /\ HoldsRegister(state[m], k)) =>
            LET a == state[n].crdt_map.entries[k].v
                b == state[m].crdt_map.entries[k].v
                ab == LWWRegisterMerge(a, b)
                ba == LWWRegisterMerge(b, a)
            IN  /\ ab.value = ba.value
                /\ \A w \in {a, b} :
                      (\A u \in {a, b} : ~StampLess(w, u)) => ab.value = w.value

----------------------------------------------------------------------------
(* Observed-remove sets.                                                   *)

HoldsSet(s, k) ==
    /\ k \in DOMAIN s.crdt_map.entries
    /\ s.crdt_map.entries[k].tag = "ORSet"

\* the ORSet a state holds under k (an empty one when the key is absent)
SetAt(s, k) == IF HoldsSet(s, k) THEN s.crdt_map.entries[k].v ELSE ORSetNew

UidsOf(x, v) == IF v \in DOMAIN x.added THEN x.added[v] ELSE {}
Uids(x) == UNION {x.added[v] : v \in DOMAIN x.added}

\* v is live under k once y has been merged into x
LiveAfterMerge(x, y, k, v) == ORSetContains(SetAt(Merge(x, y), k), v)

\* C7: a remove of v tombstones only the add-uids of v that the replica holds
\* at that moment; an add of v with a uid the remover did not hold (a
\* concurrent add on another replica, or a later re-add with a fresh uid)
\* leaves v live on every replica once the states are merged, in either
\* direction.
C7_ObservedRemove ==
    [][\A n \in Nodes, req \in RequestsOver(SetChanges) :
          SyncHandler(n, req, TRUE) =>
            \A k \in Keys, v \in SetValues :
              LET before == SetAt(state[n], k)
                  after == SetAt(state'[n], k)
              IN  /\ \A u \in after.removed \ before.removed :
                        \E w \in SetValues :
                            /\ u \in UidsOf(after, w)
                            /\ \E i \in 1..Len(req) :
                                  req[i] = Change("remove", k, Some(w), None)
                  /\ \A m \in Nodes \ {n} :
                        (\E u \in UidsOf(SetAt(state[m], k), v) :
                            /\ u \notin SetAt(state[m], k).removed
                            /\ u \notin Uids(before))
                        => /\ LiveAfterMerge(state'[n], state'[m], k, v)
                           /\ LiveAfterMerge(state'[m], state'[n], k, v)
                  /\ (Len(req) > 0 /\ req[Len(req)] = Change("add", k, Some(v), None))
                        => /\ ORSetContains(after, v)
                           /\ \A m \in Nodes :
                                 /\ LiveAfterMerge(state'[n], state'[m], k, v)
                                 /\ LiveAfterMerge(state'[m], state'[n], k, v)
      ]_vars

\* a replica holds a tombstoned add of v next to a live add of v
C7_Witness ==
    \E n \in Nodes, k \in Keys, v \in SetValues :
        /\ HoldsSet(state[n], k)
        /\ \E u \in UidsOf(SetAt(state[n], k), v) : u \in SetAt(state[n], k).removed
        /\ \E u \in UidsOf(SetAt(state[n], k), v) : u \notin SetAt(state[n], k).removed

----------------------------------------------------------------------------
(* Counters.                                                               *)

Entries(n) == state[n].crdt_map.entries

AllIds == {e.id : e \in AllEntries}

RECURSIVE SumDeltas(_)
SumDeltas(S) ==
    IF S = {} THEN 0
    ELSE LET e == CHOOSE x \in S : TRUE IN e.op.delta + SumDeltas(S \ {e})

\* increments minus decrements applied to k on any node
Applied(k) ==
    SumDeltas({e \in AllEntries : e.op.key = k /\ e.op.type = "p-n-counter-increment"})
    - SumDeltas({e \in AllEntries : e.op.key = k /\ e.op.type = "p-n-counter-decrement"})

\* every replica has received every operation applied anywhere
EveryoneHasEverything == \A n \in Nodes : EntryIds(state[n]) = AllIds

----------------------------------------------------------------------------
(* Input errors.                                                           *)

\* C10: when a Sync request is answered with an input error, the node's
\* in-memory SyncState is the same as before the request.
C10_BadRequestNoChange ==
    [][\A n \in Nodes, req \in Requests :
          (SyncHandler(n, req, TRUE) /\ ~ApplyChanges(state[n], req, wall[n], gen).ok)
              => state'[n] = state[n]
      ]_vars


\* the changes apply_changes rejects: an op string outside its match arms, or
\* an arm whose required value is missing
Malformed(c) ==
    \/ c.op \notin {"add", "remove", "increment", "decrement", "set"}
    \/ (c.op \in {"add", "remove", "set"} /\ c.value = None)

FirstMalformed(req) ==
    CHOOSE i \in 1..Len(req) :
        Malformed(req[i]) /\ \A j \in 1..(i - 1) : ~Malformed(req[j])

\* the requests that hold a malformed change at some position
MalformedRequests ==
    {req \in RequestsOver(ErrorChanges) : \E i \in 1..Len(req) : Malformed(req[i])}

\* the PNCounter value under key k, 0 when the key is absent
CounterAt(s, k) ==
    IF k \in DOMAIN s.crdt_map.entries /\ s.crdt_map.entries[k].tag = "PNCounter"
    THEN PNCounterValue(s.crdt_map.entries[k].v) ELSE 0

\* C11: apply_changes processes the changes in order; at the first malformed
\* change it returns an error, every earlier change of the request having
\* been applied (map, clock and log) and nothing having been done for the
\* failing change or a later one.
C11_ErrorCommitsPrefix ==
    [][\A n \in Nodes, req \in MalformedRequests :
          (stored' = stored /\ wall' = wall /\ SyncHandler(n, req, TRUE)) =>
              LET i == FirstMalformed(req)
                  before == SubSeq(req, 1, i - 1)
                  r == ApplyChanges(state[n], before, wall[n], gen)
                  whole == ApplyChanges(state[n], req, wall[n], gen)
              IN  /\ ~whole.ok
                  /\ r.ok
                  /\ state'[n] = r.state
                  /\ Len(state'[n].op_log.ops) = Len(state[n].op_log.ops) + (i - 1)
                  /\ VCGet(state'[n].crdt_map.vector_clock, n)
                        = VCGet(state[n].crdt_map.vector_clock, n) + (i - 1)
                  /\ \A k \in Keys :
                        ((\A j \in 1..(i - 1) : before[j] = Change("increment", k, None, None))
                         /\ (k \in DOMAIN state[n].crdt_map.entries
                                => state[n].crdt_map.entries[k].tag = "PNCounter"))
                            => CounterAt(state'[n], k) = CounterAt(state[n], k) + (i - 1)
      ]_vars

\* a node holds an entry made by a request that was answered with an error:
\* the entry was never saved although every successful request saves
C11_Witness ==
    \E n \in Nodes :
        /\ stored[n] = None
        /\ Len(state[n].op_log.ops) = 1
        /\ state[n].op_log.ops[1].op.type = "p-n-counter-increment"
        /\ CounterAt(state[n], state[n].op_log.ops[1].op.key) = 1


----------------------------------------------------------------------------
(* Persistence.                                                            *)

\* C12: whenever no writer holds the node's lock and a write request has been
\* saved, the state stored under state:<node_id> equals the in-memory
\* SyncState that readers observe and that is pushed to peers.
C12_StoredEqualsMemory ==
    \A n \in Nodes :
        (lock[n] = None /\ stored[n] # None) => LoadState(stored[n]) = Some(state[n])

\* C13: if the storage write fails during a Sync or Merge request, the
\* mutation the request made is not in the in-memory state afterwards.
C13_FailedSaveNoMutation ==
    [][\A n \in Nodes :
          /\ \A req \in RequestsOver(ErrorChanges) :
                (stored' = stored
                 /\ ApplyChanges(state[n], req, wall[n], gen).ok
                 /\ SyncHandler(n, req, FALSE))
                    => state'[n] = state[n]
          /\ \A m \in Nodes \ {n} :
                (stored' = stored /\ MergeHandler(n, state[m], FALSE))
                    => state'[n] = state[n]
      ]_vars


\* C14: save_state followed by load_state for the same node id returns a
\* SyncState with the same map, vector clock and op log, and so the same
\* state_hash, as the state that was saved; a restarted node holds it.
C14_SaveLoadRoundTrip ==
    [][\A n \in Nodes :
          /\ stored'[n] # stored[n] =>
                /\ LoadState(stored'[n]) = Some(state'[n])
                /\ StateHash(LoadState(stored'[n])[1]) = StateHash(state'[n])
          /\ (Restart(n) /\ stored[n] # None) =>
                \A x \in Sources : SaveState(x) = stored[n] => state'[n] = x
      ]_vars

\* a saved state that holds a register, a counter or a set with a removed
\* element, and that loads back as the state in memory
C14_Witness ==
    \E n \in Nodes, k \in Keys :
        /\ stored[n] # None
        /\ LoadState(stored[n]) = Some(state[n])
        /\ HoldsSet(state[n], k)
        /\ state[n].crdt_map.entries[k].v.removed # {}
        /\ Len(state[n].op_log.ops) = 2


----------------------------------------------------------------------------
(* Snapshot management.                                                    *)

\* the versions saved for a node and still present
SavedVersions(d, node_id) ==
    {v \in Versions : SnapshotKey(node_id, v) \in DOMAIN d}

\* the ascending sequence of the `count` largest members of V
RECURSIVE Ascending(_)
Ascending(V) ==
    IF V = {} THEN <<>>
    ELSE LET m == CHOOSE x \in V : \A y \in V : x <= y
         IN  <<m>> \o Ascending(V \ {m})

Largest(V, count) ==
    LET all == Ascending(V)
    IN  SubSeq(all, Len(all) - count + 1, Len(all))

Min(a, b) == IF a <= b THEN a ELSE b

\* C15: for any set V of saved snapshot versions of a node and any keep >= 0,
\* after cleanup_old_snapshots(node, keep) list_snapshots(node) returns, in
\* ascending order, exactly the min(keep, |V|) largest versions of V, and
\* load_snapshot still returns the saved state for each of them.
C15_CleanupKeepsLargest ==
    [][\A node_id \in SnapshotNodes, keep \in 0..MaxKeep :
          CleanupOldSnapshotsCall(node_id, keep) =>
              LET V == SavedVersions(db, node_id)
                  kept == Largest(V, Min(keep, Cardinality(V)))
              IN  /\ ListSnapshots(db', node_id) = kept
                  /\ \A i \in 1..Len(kept) :
                        LoadSnapshot(db', node_id, kept[i])
                            = Some(VersionedState(node_id, kept[i]))
      ]_vars


----------------------------------------------------------------------------
(* Type mismatch on merge.                                                 *)

\* key k holds values of different CRDT variants in x and y
Mismatch(x, y, k) ==
    /\ k \in DOMAIN x.crdt_map.entries
    /\ k \in DOMAIN y.crdt_map.entries
    /\ x.crdt_map.entries[k].tag # y.crdt_map.entries[k].tag

\* C16: when a merged peer state holds, for a key already present locally, a
\* value of a different variant, the merge completes successfully, the local
\* value at that key is unchanged, and every other key, the vector clock and
\* the op log are still merged.
C16_MismatchKeepsLocal ==
    [][\A m \in Nodes : \A n \in Nodes \ {m} :
          (MergeHandler(m, state[n], TRUE) /\ \E k \in TwoKeys : Mismatch(state[m], state[n], k)) =>
              LET mine == state[m].crdt_map
                  theirs == state[n].crdt_map
                  after == state'[m].crdt_map
              IN  /\ stored'[m] = SaveState(state'[m])
                  /\ DOMAIN after.entries = DOMAIN mine.entries \cup DOMAIN theirs.entries
                  /\ \A k \in TwoKeys :
                        /\ Mismatch(state[m], state[n], k) => after.entries[k] = mine.entries[k]
                        /\ (k \in DOMAIN theirs.entries /\ k \notin DOMAIN mine.entries)
                              => after.entries[k] = theirs.entries[k]
                        /\ (k \in DOMAIN theirs.entries /\ k \in DOMAIN mine.entries
                            /\ ~Mismatch(state[m], state[n], k)
                            /\ mine.entries[k].tag = "PNCounter")
                              => after.entries[k]
                                   = PNCounterV(PNCounterMerge(mine.entries[k].v, theirs.entries[k].v))
                        /\ (k \in DOMAIN theirs.entries /\ k \in DOMAIN mine.entries
                            /\ ~Mismatch(state[m], state[n], k)
                            /\ mine.entries[k].tag = "LWWRegister")
                              => after.entries[k]
                                   = LWWRegisterV(LWWRegisterMerge(mine.entries[k].v, theirs.entries[k].v))
                  /\ after.vector_clock = VCMerge(mine.vector_clock, theirs.vector_clock)
                  /\ EntryIds(state'[m]) = EntryIds(state[m]) \cup EntryIds(state[n])
      ]_vars

\* a node has merged a peer whose value under one key is of another variant:
\* it holds the peer's entries and the peer's other key, and its own value of
\* its own variant under the contested key
C16_Witness ==
    \E m \in Nodes : \E n \in Nodes \ {m} : \E k \in TwoKeys : \E j \in TwoKeys \ {k} :
        /\ Mismatch(state[m], state[n], k)
        /\ EntryIds(state[n]) # {}
        /\ EntryIds(state[n]) \subseteq EntryIds(state[m])
        /\ EntryIds(state[m]) # EntryIds(state[n])
        /\ j \in DOMAIN state[n].crdt_map.entries
        /\ j \in DOMAIN state[m].crdt_map.entries
        /\ state[m].crdt_map.entries[j] = state[n].crdt_map.entries[j]
        /\ stored[m] = SaveState(state[m])


----------------------------------------------------------------------------
(* Frame of sync-peer.                                                     *)

\* C17: a sync-peer request at node n naming peer m leaves n's in-memory and
\* persisted state as they were, whether m cannot be reached, merges and
\* answers success, or merges and answers with an error because its save
\* failed; and when m cannot be reached, m's state is unchanged as well.
C17_SyncPeerFrame ==
    [][\A n \in Nodes : \A m \in Nodes \ {n} : \A reachable \in BOOLEAN, saveOk \in BOOLEAN :
          SyncPeerHandler(n, m, reachable, saveOk) =>
              /\ state'[n] = state[n]
              /\ stored'[n] = stored[n]
              /\ ~reachable => (state'[m] = state[m] /\ stored'[m] = stored[m])
      ]_vars

\* a node whose own save had failed has pushed its entries to a peer, and its
\* persisted state is still absent
C17_Witness ==
    \E n \in Nodes : \E m \in Nodes \ {n} :
        /\ EntryIds(state[n]) # {}
        /\ EntryIds(state[n]) \subseteq EntryIds(state[m])
        /\ \A i \in 1..Len(state[m].op_log.ops) : DOMAIN state[m].op_log.ops[i].causal = {n}
        /\ stored[n] = None
        /\ stored[m] # None


----------------------------------------------------------------------------
(* Mutual exclusion of the writers.                                        *)

\* the surfaces of node n whose request is between write().await and the
\* drop of the guard
Writing(n) ==
    {sf \in Surfaces : inflight[n][sf] # None /\ Handling(n, sf).pc # "wait"}

RECURSIVE LoggedSum(_, _)
\* the net of the counter operations the log holds for key k
LoggedSum(ops, k) ==
    IF ops = <<>> THEN 0
    ELSE LET op == Head(ops).op
             d == IF op.key # k THEN 0
                  ELSE IF op.type = "p-n-counter-increment" THEN op.delta
                  ELSE IF op.type = "p-n-counter-decrement" THEN 0 - op.delta
                  ELSE 0
         IN  d + LoggedSum(Tail(ops), k)

\* every logged operation is in the map: the counters are the net of the
\* logged operations and the clock is at or past every entry's causal clock
Whole(s) ==
    /\ \A k \in Keys : CounterAt(s, k) = LoggedSum(s.op_log.ops, k)
    /\ \A i \in 1..Len(s.op_log.ops) : \A n \in DOMAIN s.op_log.ops[i].causal :
          VCGet(s.crdt_map.vector_clock, n) >= s.op_log.ops[i].causal[n]

\* C18: Sync and Merge requests in progress on the two surfaces of a node
\* exclude each other from the write().await to the drop of the guard, storage
\* write included: between two changes and from the end of apply/merge on, the
\* state is what the request alone computes from the state it found (so the
\* requests take effect in the serial order of their acquisitions), what is
\* saved is that state, and a reader is never handed a state whose log holds
\* an operation the map does not.
C18_WritersExclusive ==
    \A n \in Nodes :
        /\ Cardinality(Writing(n)) <= 1
        /\ \A sf \in Writing(n) :
              LET h == Handling(n, sf) IN
              /\ lock[n] = Some(sf)
              /\ h.pc # "map" => state[n] = h.expect[1]
              /\ h.pc = "saved" => stored[n] = SaveState(h.expect[1])
        /\ observed[n] # None => Whole(observed[n][1])

\* a Sync request on one surface is between its log update and its map
\* update while a Merge request carrying entries the node lacks waits on the
\* other surface, and a reader has been served since the node's first write
C18_Witness ==
    \E n \in Nodes : \E sf \in Surfaces : \E other \in Surfaces \ {sf} :
        /\ inflight[n][sf] # None
        /\ Handling(n, sf).kind = "sync"
        /\ Handling(n, sf).pc = "map"
        /\ ~Whole(state[n])
        /\ inflight[n][other] # None
        /\ Handling(n, other).kind = "merge"
        /\ Handling(n, other).pc = "wait"
        /\ ~(EntryIds(Handling(n, other).peer[1]) \subseteq EntryIds(state[n]))
        /\ observed[n] # None


----------------------------------------------------------------------------
(* Conflict records.                                                       *)

\* the LwwRegisterSet entries of key k in the log of s that are in some pair
\* of entries neither of whose clocks happens-before the other
InConcurrentPair(s, k) ==
    LET ops == s.op_log.ops
        lww == {i \in 1..Len(ops) : IsLwwSet(ops[i]) /\ ops[i].op.key = k}
    IN  {ops[i] : i \in {i \in lww : \E j \in lww \ {i} :
                            /\ ~HappensBefore(ops[i].causal, ops[j].causal)
                            /\ ~HappensBefore(ops[j].causal, ops[i].causal)}}

\* the records of the answer that name key k
RecordsOf(s, k) ==
    LET cs == GetConflicts(s) IN {i \in 1..Len(cs) : cs[i].key = k}

\* C19: the detector answers with exactly one record for each key whose log
\* entries hold a pair of register writes with neither clock before the
\* other, and with no record for any other key.
C19_OneRecordPerConflictingKey ==
    \A n \in Nodes :
        /\ \A k \in TwoKeys :
              Cardinality(RecordsOf(state[n], k))
                = IF InConcurrentPair(state[n], k) # {} THEN 1 ELSE 0
        /\ \A i \in 1..Len(GetConflicts(state[n])) : GetConflicts(state[n])[i].key \in TwoKeys

\* after merging, a node holds writes of one key at clocks of which neither
\* is before the other, and writes of the other key that are ordered: one
\* record, for the first key only
C19_Witness ==
    \E n \in Nodes : \E k \in TwoKeys : \E o \in TwoKeys \ {k} :
        /\ InConcurrentPair(state[n], k) # {}
        /\ Len(LwwWrites(state[n].op_log.ops, o)) >= 1
        /\ InConcurrentPair(state[n], o) = {}
        /\ Len(GetConflicts(state[n])) = 1

\* C20: the record of a key lists every register write of the key that is
\* in at least one concurrent pair, each exactly once, and no write that is
\* in none.
C20_RecordListsConcurrentOnce ==
    \A n \in Nodes : \A k \in TwoKeys :
        \A r \in RecordsOf(state[n], k) :
            LET listed == GetConflicts(state[n])[r].operations
                ids == {listed[i].id : i \in 1..Len(listed)}
            IN  /\ ids = {e.id : e \in InConcurrentPair(state[n], k)}
                /\ Cardinality(ids) = Len(listed)


----------------------------------------------------------------------------
(* Digest and logical content.                                             *)

\* the contribution of node n to a grow-only counter, zero when absent
Contribution(c, n) == IF n \in DOMAIN c.counts THEN c.counts[n] ELSE 0

SameCounts(c, d) ==
    \A n \in DOMAIN c.counts \cup DOMAIN d.counts : Contribution(c, n) = Contribution(d, n)

\* two values of one key with the same logical content
SameValue(x, y) ==
    /\ x.tag = y.tag
    /\ CASE x.tag = "GCounter" -> SameCounts(x.v, y.v)
         [] x.tag = "PNCounter" ->
               SameCounts(x.v.positive, y.v.positive) /\ SameCounts(x.v.negative, y.v.negative)
         [] x.tag = "LWWRegister" ->
               x.v.value = y.v.value /\ x.v.timestamp = y.v.timestamp
         [] x.tag = "ORSet" -> ORSetElements(x.v) = ORSetElements(y.v)

SameLogicalContent(s, t) ==
    /\ DOMAIN s.crdt_map.entries = DOMAIN t.crdt_map.entries
    /\ \A k \in DOMAIN s.crdt_map.entries : SameValue(s.crdt_map.entries[k], t.crdt_map.entries[k])

\* C21: two replicas whose maps have the same logical content (an absent
\* counter contribution counting as zero) have equal state_hash digests,
\* whatever their logs, clocks and node ids.
C21_SameContentSameDigest ==
    \A n \in Nodes : \A m \in Nodes :
        SameLogicalContent(state[n], state[m]) => StateHash(state[n]) = StateHash(state[m])


----------------------------------------------------------------------------
(* Signatures on merge.                                                    *)

\* C22: an operation of a merged peer state whose signature does not verify
\* is rejected: it enters neither the op log nor the map of any replica (the
\* counters stay the net of the operations the nodes logged themselves).
C22_UnverifiedRejected ==
    \A n \in Nodes :
        /\ \A i \in 1..Len(state[n].op_log.ops) : state[n].op_log.ops[i] # ForgedEntry
        /\ \A k \in Keys :
              k \in DOMAIN state[n].crdt_map.entries =>
                  Contribution(state[n].crdt_map.entries[k].v.positive, N2)
                    = LoggedSum(SelectSeq(state[n].op_log.ops,
                                          LAMBDA e : e # ForgedEntry /\ e.op.node_id = N2), k)


----------------------------------------------------------------------------
(* What apply_operation does for one operation.                            *)

\* the requests of one well-formed change: one operation each
SingleRequests == {<<c>> : c \in Changes \ BadChanges}

VariantOf(c) ==
    CASE c.op \in {"increment", "decrement"} -> "PNCounter"
      [] c.op = "set" -> "LWWRegister"
      [] c.op \in {"add", "remove"} -> "ORSet"

\* the value under the change's key shows the change, given the value (if
\* any) that was there before
Reflects(c, n, before, after) ==
    CASE c.op = "increment" ->
            Contribution(after.v.positive, n)
              = DeltaOr1(c.delta)
                + (IF before # None /\ before[1].tag = "PNCounter"
                   THEN Contribution(before[1].v.positive, n) ELSE 0)
      [] c.op = "decrement" ->
            Contribution(after.v.negative, n)
              = DeltaOr1(c.delta)
                + (IF before # None /\ before[1].tag = "PNCounter"
                   THEN Contribution(before[1].v.negative, n) ELSE 0)
      [] c.op = "set" -> after.v.value = c.value
      [] c.op = "add" -> c.value[1] \in ORSetElements(after.v)
      [] c.op = "remove" -> c.value[1] \notin ORSetElements(after.v)

\* C23: one operation applied to any state advances the node's own clock
\* entry by one, appends one log entry stamped with the advanced clock, and
\* leaves under the operation's key a value of the operation's variant that
\* shows the operation, created when the key was absent.
C23_ApplyOperationEffect ==
    [][\A n \in Nodes : \A req \in SingleRequests :
          (wall' = wall /\ gen' # gen /\ SyncHandler(n, req, TRUE)) =>
              LET c == req[1]
                  old == state[n]
                  new == state'[n]
                  last == new.op_log.ops[Len(new.op_log.ops)]
              IN  /\ VCGet(new.crdt_map.vector_clock, n) = VCGet(old.crdt_map.vector_clock, n) + 1
                  /\ Len(new.op_log.ops) = Len(old.op_log.ops) + 1
                  /\ last.causal = new.crdt_map.vector_clock
                  /\ c.key \in DOMAIN new.crdt_map.entries
                  /\ new.crdt_map.entries[c.key].tag = VariantOf(c)
                  /\ Reflects(c, n,
                              IF c.key \in DOMAIN old.crdt_map.entries
                              THEN Some(old.crdt_map.entries[c.key]) ELSE None,
                              new.crdt_map.entries[c.key])
      ]_vars


----------------------------------------------------------------------------
(* Register stamps over time.                                              *)

\* C24: on every replica the (timestamp, writer) pair of a register never
\* decreases lexicographically, whatever local set or merge is taken.
C24_StampNeverDecreases ==
    [][\A n \in Nodes : \A k \in Keys :
          HoldsRegister(state[n], k) =>
              ~StampLess(state'[n].crdt_map.entries[k].v, state[n].crdt_map.entries[k].v)
      ]_vars


----------------------------------------------------------------------------
(* Op-log invariants.                                                      *)

C26_LogSorted ==
    \A n \in Nodes : \A i \in 1..Len(state[n].op_log.ops) : \A j \in 1..Len(state[n].op_log.ops) :
        i < j => ~EntryLess(state[n].op_log.ops[j], state[n].op_log.ops[i])


\* C27: on every replica, for every key that holds a PNCounter, the counter
\* value is the sum of the logged increments minus the sum of the logged
\* decrements of that key.
C27_CounterIsLoggedNet ==
    \A n \in Nodes : \A k \in Keys :
        (k \in DOMAIN state[n].crdt_map.entries /\ state[n].crdt_map.entries[k].tag = "PNCounter")
            => CounterAt(state[n], k) = LoggedSum(state[n].op_log.ops, k)


----------------------------------------------------------------------------
(* A node and what its peers hold of it.                                   *)

\* node n's contribution to the counter half `half` under key k in state s
OwnShare(s, k, n, half) ==
    IF k \in DOMAIN s.crdt_map.entries /\ s.crdt_map.entries[k].tag = "PNCounter"
    THEN Contribution(s.crdt_map.entries[k].v[half], n) ELSE 0

\* C28: what a replica r holds of another node n (its vector-clock entry for
\* n and the counter contributions recorded under n) never exceeds n's own
\* current values, also after n crashed and restarted from its storage.
C28_NeverBehindPeers ==
    \A r \in Nodes : \A n \in Nodes \ {r} :
        /\ VCGet(state[r].crdt_map.vector_clock, n) <= VCGet(state[n].crdt_map.vector_clock, n)
        /\ \A k \in Keys : \A half \in {"positive", "negative"} :
              OwnShare(state[r], k, n, half) <= OwnShare(state[n], k, n, half)


----------------------------------------------------------------------------
(* Entry ids.                                                              *)

\* C29: no op log holds two entries with the same id, and two entries with
\* the same id held by any two replicas are equal in ts, causal clock and
\* operation.
C29_IdsIdentifyEntries ==
    /\ \A n \in Nodes : \A i \in 1..Len(state[n].op_log.ops) : \A j \in 1..Len(state[n].op_log.ops) :
          state[n].op_log.ops[i].id = state[n].op_log.ops[j].id => i = j
    /\ \A e \in AllEntries : \A f \in AllEntries : e.id = f.id => e = f

\* two replicas have merged each other: both hold the same entries, made by
\* both nodes
C29_Witness ==
    \E n \in Nodes : \E m \in Nodes \ {n} :
        /\ EntryIds(state[n]) = EntryIds(state[m])
        /\ \E i \in 1..Len(state[n].op_log.ops) : DOMAIN state[n].op_log.ops[i].causal = {n}
        /\ \E i \in 1..Len(state[n].op_log.ops) : DOMAIN state[n].op_log.ops[i].causal = {m}


----------------------------------------------------------------------------
(* Variants of a key.                                                      *)

\* C30: on every replica, a key that holds a value of some variant holds a
\* value of that variant in every later state.
C30_VariantStable ==
    [][\A n \in Nodes : \A k \in TwoKeys :
          k \in DOMAIN state[n].crdt_map.entries =>
              /\ k \in DOMAIN state'[n].crdt_map.entries
              /\ state'[n].crdt_map.entries[k].tag = state[n].crdt_map.entries[k].tag
      ]_vars

\* a replica that holds a counter under a key has logged a register write
\* to that key and merged a peer that holds a register under it
C30_Witness ==
    \E n \in Nodes : \E m \in Nodes \ {n} : \E k \in TwoKeys :
        /\ Mismatch(state[n], state[m], k)
        /\ state[n].crdt_map.entries[k].tag = "PNCounter"
        /\ EntryIds(state[m]) # {}
        /\ EntryIds(state[m]) \subseteq EntryIds(state[n])
        /\ \E i \in 1..Len(state[n].op_log.ops) :
              /\ IsLwwSet(state[n].op_log.ops[i])
              /\ state[n].op_log.ops[i].op.key = k
              /\ state[n].op_log.ops[i].op.node_id = n

----------------------------------------------------------------------------
(* Comparing vector clocks.                                                *)

\* the largest component of a compared clock
MaxClock == 2

\* the clocks a caller may hold: any node may be missing, or present with any
\* count from zero up (a deserialized clock may carry explicit zeros)
Clocks == UNION {[d -> 0..MaxClock] : d \in SUBSET Nodes}

\* a caller compares two clocks in both directions
CompareClocks(u, v) ==
    /\ probe' = Some([u |-> u, v |-> v,
                      before |-> HappensBefore(u, v),
                      after |-> HappensBefore(v, u),
                      concurrent |-> IsConcurrent(u, v)])
    /\ UNCHANGED <<state, stored, wall, gen, db, lock, inflight, observed>>

NextClocks == \E u \in Clocks : \E v \in Clocks : CompareClocks(u, v)

SpecClocks == Init /\ [][NextClocks]_vars

\* u <= v pointwise, a missing node counting as zero
ClockLeq(u, v) == \A n \in Nodes : VCGet(u, n) <= VCGet(v, n)

\* a clock without its zero entries
DropZeros(u) == [n \in {m \in DOMAIN u : u[m] > 0} |-> u[n]]

\* C31: happens_before and is_concurrent treat a missing key and an explicit
\* zero entry alike: u happens-before v iff u <= v pointwise and u differs
\* from v after dropping zero entries, and u and v are concurrent iff neither
\* u <= v nor v <= u; so two clocks that differ only in zero entries are
\* neither ordered nor concurrent.
C31_ZeroEntriesIgnored ==
    probe # None =>
        LET p == probe[1] IN
        /\ p.before <=> (ClockLeq(p.u, p.v) /\ DropZeros(p.u) # DropZeros(p.v))
        /\ p.after <=> (ClockLeq(p.v, p.u) /\ DropZeros(p.u) # DropZeros(p.v))
        /\ p.concurrent <=> (~ClockLeq(p.u, p.v) /\ ~ClockLeq(p.v, p.u))

----------------------------------------------------------------------------
(* The map's vector clock over time.                                       *)

MapClock(n) == state[n].crdt_map.vector_clock

\* C32: a replica's map vector clock never decreases pointwise under any
\* local operation or merge; after a merge it is at or above the sender's
\* clock; a write raises the writer's own component by one per logged
\* operation, and a merge from a sender whose own component the receiver has
\* not seen leaves the receiver's clock strictly greater than before.  So when
\* A writes and pushes to B, then B writes and pushes back, A's clock after the
\* exchange is strictly greater than its clock before it.
C32_ClockNeverDecreases ==
    [][ \A n \in Nodes :
          /\ ClockLeq(MapClock(n), MapClock(n)')
          /\ (gen' > gen /\ state'[n] # state[n]) =>
                VCGet(MapClock(n)', n) = VCGet(MapClock(n), n)
                    + (Len(state'[n].op_log.ops) - Len(state[n].op_log.ops))
          /\ \A m \in Nodes \ {n} :
                (\E saveOk \in BOOLEAN : MergeHandler(n, state[m], saveOk)) =>
                    /\ ClockLeq(MapClock(m), MapClock(n)')
                    /\ VCGet(MapClock(m), m) > VCGet(MapClock(n), m) =>
                          /\ MapClock(n)' # MapClock(n)
                          /\ VCGet(MapClock(n)', m) > VCGet(MapClock(n), m)
      ]_vars

\* A wrote and pushed to B, B wrote and pushed back: A's clock holds both
\* writes, and B's clock holds A's
C32_Witness ==
    \E a \in Nodes : \E b \in Nodes \ {a} :
        /\ VCGet(MapClock(a), a) >= 1
        /\ VCGet(MapClock(a), b) >= 1
        /\ VCGet(MapClock(b), a) >= 1
        /\ \E i \in 1..Len(state[a].op_log.ops) :
              /\ state[a].op_log.ops[i].op.node_id = b
              /\ VCGet(state[a].op_log.ops[i].causal, a) >= 1

\* the entries node n created: the changes of /sync carry the id of the node
\* that handled them
CreatedBy(n) == {e \in AllEntries : e.op.node_id = n}

\* C33: without crash or restart and with distinct node ids, the k-th
\* operation created by node n carries causal[n] = k, and no two distinct
\* op-log entries anywhere in the system carry equal causal vector clocks.
C33_CausalCountsOwnOps ==
    /\ \A n \in Nodes : \A e \in CreatedBy(n) :
          VCGet(e.causal, n) = Cardinality({f \in CreatedBy(n) : f.id <= e.id})
    /\ \A e \in AllEntries : \A f \in AllEntries :
          e.id # f.id => e.causal # f.causal

\* a node has created two operations, the later one after it had merged an
\* operation of the other node
C33_Witness ==
    \E n \in Nodes : \E e \in CreatedBy(n) :
        /\ VCGet(e.causal, n) = 2
        /\ DOMAIN e.causal = Nodes
        /\ \E m \in Nodes \ {n} : CreatedBy(m) # {}

----------------------------------------------------------------------------
(* Authorization (api.rs AuthMiddleware, auth.rs) on the two transports.   *)

\* main.rs --auth-enabled: the nodes run with authorization switched on
AuthEnabled == TRUE

Roles == {"admin", "writer", "reader"}

\* Role::has_permission
RoleHasPermission(role, required) ==
    \/ role = "admin"
    \/ role = "writer" /\ required \in {"writer", "reader"}
    \/ role = "reader" /\ required = "reader"

\* what a request carries: no Authorization header, or a header that has the
\* Bearer prefix or not, with a token that verifies under the node's secret
\* or not, issued for a role
Credentials ==
    {None} \cup {Some([bearer |-> b, valid |-> v, role |-> r]) :
                    b \in BOOLEAN, v \in BOOLEAN, r \in Roles}

\* AuthMiddleware::handle: whether the request is passed on to the handler
AuthMiddleware(cred, required_role) ==
    IF ~AuthEnabled THEN TRUE
    ELSE IF cred = None THEN FALSE               \* 401 missing header
    ELSE IF ~cred[1].bearer THEN FALSE           \* 401 extract_token
    ELSE IF ~cred[1].valid THEN FALSE            \* 401 verify_token
    ELSE RoleHasPermission(cred[1].role, required_role)   \* or 403

Recorded(surface, n, cred) == Some([surface |-> surface, node |-> n, cred |-> cred])

\* POST /sync behind AuthMiddleware::new(Role::Writer)
HttpSync(n, cred, req) ==
    /\ probe' = Recorded("http", n, cred)
    /\ IF AuthMiddleware(cred, "writer")
       THEN /\ state' = [state EXCEPT ![n] = ApplyChanges(state[n], req, wall[n], gen).state]
            /\ stored' = IF ApplyChanges(state[n], req, wall[n], gen).ok
                         THEN [stored EXCEPT ![n] =
                                 SaveState(ApplyChanges(state[n], req, wall[n], gen).state)]
                         ELSE stored
            /\ gen' = ApplyChanges(state[n], req, wall[n], gen).gen
       ELSE UNCHANGED <<state, stored, gen>>
    /\ UNCHANGED <<wall, db, lock, inflight, observed>>

\* POST /merge behind AuthMiddleware::new(Role::Writer)
HttpMerge(m, cred, peer) ==
    /\ probe' = Recorded("http", m, cred)
    /\ IF AuthMiddleware(cred, "writer")
       THEN /\ state' = [state EXCEPT ![m] = Merge(@, peer)]
            /\ stored' = [stored EXCEPT ![m] = SaveState(Merge(state[m], peer))]
       ELSE UNCHANGED <<state, stored>>
    /\ UNCHANGED <<wall, gen, db, lock, inflight, observed>>

\* the gRPC Sync: the request's metadata is never looked at
GrpcSync(n, cred, req) ==
    /\ probe' = Recorded("grpc", n, cred)
    /\ state' = [state EXCEPT ![n] = ApplyChanges(state[n], req, wall[n], gen).state]
    /\ stored' = IF ApplyChanges(state[n], req, wall[n], gen).ok
                 THEN [stored EXCEPT ![n] =
                         SaveState(ApplyChanges(state[n], req, wall[n], gen).state)]
                 ELSE stored
    /\ gen' = ApplyChanges(state[n], req, wall[n], gen).gen
    /\ UNCHANGED <<wall, db, lock, inflight, observed>>

\* the gRPC Merge: the request's metadata is never looked at
GrpcMerge(m, cred, peer) ==
    /\ probe' = Recorded("grpc", m, cred)
    /\ state' = [state EXCEPT ![m] = Merge(@, peer)]
    /\ stored' = [stored EXCEPT ![m] = SaveState(Merge(state[m], peer))]
    /\ UNCHANGED <<wall, gen, db, lock, inflight, observed>>

\* clients with any credentials write counters and post one node's state to
\* the other, over either transport
NextAuth ==
    \/ \E n \in Nodes, cred \in Credentials, req \in RequestsOver(CounterChanges) :
          Room(n, req, MaxOpsShort) /\ HttpSync(n, cred, req)
    \/ \E n \in Nodes, cred \in Credentials, req \in RequestsOver(CounterChanges) :
          Room(n, req, MaxOpsShort) /\ GrpcSync(n, cred, req)
    \/ \E n \in Nodes : \E m \in Nodes \ {n}, cred \in Credentials :
          HttpMerge(m, cred, state[n])
    \/ \E n \in Nodes : \E m \in Nodes \ {n}, cred \in Credentials :
          GrpcMerge(m, cred, state[n])

SpecAuth == Init /\ [][NextAuth]_vars

\* a verified bearer token issued for Writer or Admin
WriterToken(cred) ==
    /\ cred # None
    /\ cred[1].bearer
    /\ cred[1].valid
    /\ cred[1].role \in {"writer", "admin"}

\* C34: when authorization is enabled, no request changes the node's SyncState
\* unless it carries a valid token whose role is Writer or Admin, on every
\* network surface that shares the state (HTTP and gRPC).
C34_WritesNeedWriterToken ==
    [][ AuthEnabled /\ state' # state => WriterToken(probe'[1].cred) ]_vars

----------------------------------------------------------------------------
(* Tombstones of an ORSet.                                                 *)

\* the values whose liveness rests on add-uid u in set x
LiveBy(x, u) == {v \in DOMAIN x.added : u \in x.added[v] /\ u \notin x.removed}

\* C35: every tombstone names an add the set holds, and once a uid is
\* tombstoned on a replica it stays tombstoned there, so the add it identifies
\* never makes its value live again on that replica, nor on a replica that
\* merges that state.
C35_TombstonesStay ==
    [][ \A n \in Nodes : \A k \in Keys :
          /\ HoldsSet(state'[n], k) =>
                SetAt(state'[n], k).removed \subseteq Uids(SetAt(state'[n], k))
          /\ \A u \in SetAt(state[n], k).removed :
                /\ u \in SetAt(state'[n], k).removed
                /\ LiveBy(SetAt(state'[n], k), u) = {}
                /\ \A m \in Nodes \ {n} :
                      LET merged == SetAt(Merge(state[m], state[n]), k) IN
                      HoldsSet(Merge(state[m], state[n]), k) =>
                          /\ u \in merged.removed
                          /\ LiveBy(merged, u) = {}
      ]_vars

----------------------------------------------------------------------------
(* The read-only requests (GET /state, /state-hash, /oplog, /history,      *)
(* /conflicts and the gRPC calls of the same names).                       *)

\* a str can be cut at byte index i: i is within the string and does not fall
\* inside a UTF-8 sequence (a continuation byte is 0x80..0xBF)
IsCharBoundary(str, i) ==
    \/ i = Len(str)
    \/ i < Len(str) /\ str[i + 1] \notin 128..191

\* the length of the unique-id prefix a history record shows: &unique_id[..8]
IdPrefix == 8

\* whether the handler gets through the entry: the slice &unique_id[..8] of an
\* ORSet add panics when 8 is not a char boundary of the id
Projects(entry) ==
    entry.op.type = "or-set-add" => IsCharBoundary(entry.op.unique_id, IdPrefix)

\* the arguments of the format! that makes the `details` of a record
Details(op) ==
    CASE op.type \in {"g-counter-increment", "p-n-counter-increment",
                      "p-n-counter-decrement"} -> <<op.node_id, op.delta>>
      [] op.type = "lww-register-set" -> <<op.node_id, op.value, op.timestamp>>
      [] op.type = "or-set-add" -> <<op.value, SubSeq(op.unique_id, 1, IdPrefix)>>
      [] op.type = "or-set-remove" -> <<op.value>>

HistoryEntry(entry, log_node) ==
    [id |-> entry.id, timestamp |-> entry.ts, operation_type |-> entry.op.type,
     key |-> entry.op.key, details |-> Details(entry.op), node_id |-> log_node,
     causal_context |-> entry.causal]

\* get_history_handler: one record per op-log entry, or the request aborts
\* at the first entry whose id cannot be sliced
GetHistory(s) ==
    IF \A i \in 1..Len(s.op_log.ops) : Projects(s.op_log.ops[i])
    THEN [ok |-> TRUE,
          body |-> [i \in 1..Len(s.op_log.ops) |->
                       HistoryEntry(s.op_log.ops[i], s.op_log.node_id)]]
    ELSE [ok |-> FALSE, body |-> <<>>]

Answer(n, kind, body) ==
    observed' = [observed EXCEPT ![n] = Some([kind |-> kind, body |-> body])]

\* a get_state_hash that also persists the state it has hashed
GetStateHashCallSaves(n) ==
    /\ Answer(n, "state-hash", StateHash(state[n]))
    /\ stored' = [stored EXCEPT ![n] = SaveState(state[n])]
    /\ UNCHANGED <<state, wall, gen, db, lock, inflight, probe>>

\* get_state_hash_handler
GetStateHashCall(n) ==
    /\ Answer(n, "state-hash", StateHash(state[n]))
    /\ UNCHANGED <<state, stored, wall, gen, db, lock, inflight, probe>>

\* get_state_handler
GetStateCall(n) ==
    /\ Answer(n, "state", SyncStateToJson(state[n]))
    /\ UNCHANGED <<state, stored, wall, gen, db, lock, inflight, probe>>

\* get_oplog_handler
GetOpLogCall(n) ==
    /\ Answer(n, "oplog", OpLogToJson(state[n].op_log))
    /\ UNCHANGED <<state, stored, wall, gen, db, lock, inflight, probe>>

\* get_history_handler
GetHistoryCall(n) ==
    /\ Answer(n, "history", GetHistory(state[n]))
    /\ UNCHANGED <<state, stored, wall, gen, db, lock, inflight, probe>>

\* get_conflicts_handler
GetConflictsCall(n) ==
    /\ Answer(n, "conflicts", GetConflicts(state[n]))
    /\ UNCHANGED <<state, stored, wall, gen, db, lock, inflight, probe>>

ReadOnly(n) ==
    \/ GetStateCall(n)
    \/ GetStateHashCall(n)
    \/ GetOpLogCall(n)
    \/ GetHistoryCall(n)
    \/ GetConflictsCall(n)

\* the unique ids a library caller gives its ORSet adds: as short as the
\* "id1" of the unit tests, or eight bytes long
CallerIds == {<<1, 2, 3>>, <<1, 2, 3, 4, 5, 6, 7, 8>>}

LibraryAdds == {OpOrSetAdd(k, v, u) : k \in Keys, v \in SetValues, u \in CallerIds}

\* register writes through /sync, ORSet adds through apply_operation with the
\* caller's unique ids, pushes, and the five readers, asked of node N1
NextReaders ==
    \/ \E n \in Nodes, req \in RequestsOver(RegisterChanges) :
          Room(n, req, MaxOpsShort) /\ SyncHandler(n, req, TRUE)
    \/ \E n \in Nodes : \E op \in LibraryAdds :
          Cardinality(AllEntries) < MaxOpsShort /\ ApplyOperationCall(n, op)
    \/ Replicate
    \/ ReadOnly(N1)

SpecReaders == Init /\ [][NextReaders]_vars

\* C36: GetState, GetStateHash, GetOpLog, GetHistory and GetConflicts leave
\* the in-memory SyncState and the persisted store unchanged.
C36_ReadersChangeNothing ==
    [][ (\E n \in Nodes : ReadOnly(n)) => UNCHANGED <<state, stored, db>> ]_vars

\* the history of a node that holds two entries and whose memory is ahead of
\* its store has been answered
C36_Witness ==
    /\ observed[N1] # None
    /\ observed[N1][1].kind = "history"
    /\ observed[N1][1].body.ok
    /\ Len(observed[N1][1].body.body) = 2
    /\ stored[N1] # SaveState(state[N1])

\* C40: GetHistory returns a projection with one record per op-log entry on
\* every state reachable through Sync, apply_operation and Merge, for ORSetAdd
\* unique ids of any length; it never fails or aborts on a stored log.
C40_HistoryNeverAborts ==
    \A n \in Nodes :
        /\ GetHistory(state[n]).ok
        /\ Len(GetHistory(state[n]).body) = Len(state[n].op_log.ops)

----------------------------------------------------------------------------
(* The winner of a reported conflict.                                      *)

\* C37: whenever GetConflicts reports a conflict for key k on a replica, the
\* node named as winner in the record is the writer of the value currently
\* held by that replica's LWW register for k.
C37_WinnerHoldsRegister ==
    \A n \in Nodes : \A i \in 1..Len(GetConflicts(state[n])) :
        LET c == GetConflicts(state[n])[i] IN
        /\ HoldsRegister(state[n], c.key)
        /\ state[n].crdt_map.entries[c.key].v.node_id = c.winner

----------------------------------------------------------------------------
(* Digests of maps with different content.                                 *)

\* element strings one of which is the concatenation of the other two
StringValues == {<<1>>, <<2>>, <<1, 2>>}

StringChanges == {Change("add", k, Some(v), None) : k \in Keys, v \in StringValues}

\* clients add such strings to a set, and the nodes push their states
NextStrings ==
    \/ \E n \in Nodes, req \in RequestsOver(StringChanges) :
          Room(n, req, MaxOps) /\ SyncHandler(n, req, TRUE)
    \/ Replicate

SpecStrings == Init /\ [][NextStrings]_vars

\* C38: treating SHA-256 as injective, two maps with different logical
\* content (different key sets, or for some key different counter
\* contributions, a different register value or timestamp, or different live
\* set elements) never have equal state_hash digests.
C38_DigestTellsContentApart ==
    \A n \in Nodes : \A m \in Nodes :
        ~SameLogicalContent(state[n], state[m]) => StateHash(state[n]) # StateHash(state[m])

----------------------------------------------------------------------------
(* Snapshots of different node ids.                                        *)

\* C39: snapshot operations for one node id never observe or delete snapshots
\* of a different node id: list_snapshots(n) returns exactly the versions
\* saved with save_snapshot(n, v) and not removed since, for arbitrary
\* non-empty node id strings, including ids that contain ':'.
C39_SnapshotsPerNode ==
    [][ /\ \A node_id \in SnapshotNodes :
              ListSnapshots(db', node_id) = Ascending(SavedVersions(db', node_id))
        /\ \A node_id \in SnapshotNodes, keep \in 0..MaxKeep :
              CleanupOldSnapshotsCall(node_id, keep) =>
                  \A other \in SnapshotNodes \ {node_id} :
                      SavedVersions(db', other) = SavedVersions(db, other)
      ]_vars

====
